---- MODULE Spec2Model ----
(***************************************************************************)
(* BJData / Binary-JSON decoder of bin/njv.py (class BJDataReader and      *)
(* format_value).                                                          *)
(*                                                                         *)
(* A byte buffer is a sequence of integers 0..255 (1-indexed here, while   *)
(* the cursor `pos` keeps the source's 0-based offsets).  Every reader     *)
(* method is an operator that takes the buffer, the limits and the cursor  *)
(* and returns a result record: the value returned and the new cursor, or  *)
(* the exception raised and the cursor at the time it was raised.          *)
(*                                                                         *)
(* Python values are tagged records [t, v]:                                *)
(*   none, bool (v: BOOLEAN), int (v: Int), float (v: the payload bytes,   *)
(*   i.e. the bit pattern), str (v: code points), list (v: sequence of     *)
(*   values), dict (v: ordered sequence of <<key, value>>, key a sequence  *)
(*   of code points).                                                      *)
(* Floating-point arithmetic is outside this integer model: where the code *)
(* would use a float as a length, count or dimension the operators raise   *)
(* the error kind "FloatArith".                                            *)
(* The reader is modelled with big_endian = False (the default).           *)
(***************************************************************************)
EXTENDS Integers, Sequences, FiniteSets, TLC

VARIABLES data,      \* self.data: the byte buffer
          pos,       \* self.pos: the cursor
          max_data,  \* self.max_data
          out,       \* the values returned so far by the calls made on the reader
          err,       \* the exception that ended the last call ("" while none)
          errAt,     \* the offset that exception reports
          text,      \* format_value of the last value returned
          inp,       \* the input the buffer was built from (kind, spans, ...)
          decoded,   \* the outcomes of the SOA decodes made of one block
          stack      \* the calls in progress, innermost last (step-wise reader)

vars == <<data, pos, max_data, out, err, errAt, text, inp, decoded, stack>>

(***************************************************************************)
(* Python primitives                                                       *)
(***************************************************************************)
Min(a, b) == IF a < b THEN a ELSE b
Max(a, b) == IF a > b THEN a ELSE b

\* s[a:b] on a sequence, with Python's treatment of negative and out-of-range
\* indices (0-based a, b).
SliceBound(a, n) == IF a < 0 THEN Max(a + n, 0) ELSE Min(a, n)
SliceOf(s, lo, hi) == IF lo >= hi THEN <<>> ELSE SubSeq(s, lo + 1, hi)
PySlice(s, a, b) == SliceOf(s, SliceBound(a, Len(s)), SliceBound(b, Len(s)))

RECURSIVE Concat(_)
Concat(ss) == IF ss = <<>> THEN <<>> ELSE Head(ss) \o Concat(Tail(ss))

VNone     == [t |-> "none", v |-> <<>>]
VBool(b)  == [t |-> "bool", v |-> b]
VInt(n)   == [t |-> "int", v |-> n]
VFloat(b) == [t |-> "float", v |-> b]
VStr(s)   == [t |-> "str", v |-> s]
VList(s)  == [t |-> "list", v |-> s]
VDict(s)  == [t |-> "dict", v |-> s]

\* A call's outcome: it returned val with the cursor at pos, or it raised err
\* (reporting offset at) with the cursor at pos.
Ok(v, p)         == [ok |-> TRUE, val |-> v, pos |-> p, err |-> "", at |-> 0]
Fail(kind, a, p) == [ok |-> FALSE, val |-> VNone, pos |-> p, err |-> kind, at |-> a]

(***************************************************************************)
(* Marker table (make_markers), little-endian                              *)
(***************************************************************************)
Ord == [Z |-> 90, N |-> 78, T |-> 84, F |-> 70, i |-> 105, U |-> 85, I |-> 73,
        u |-> 117, l |-> 108, m |-> 109, L |-> 76, M |-> 77, h |-> 104,
        d |-> 100, D |-> 68, C |-> 67, B |-> 66, S |-> 83, H |-> 72,
        lbr |-> 91, rbr |-> 93, lbrace |-> 123, rbrace |-> 125,
        dollar |-> 36, hash |-> 35, lt |-> 60, nul |-> 0]

Markers ==
  (Ord.Z :> [size |-> 0, fmt |-> "None"]) @@ (Ord.N :> [size |-> 0, fmt |-> "None"]) @@
  (Ord.T :> [size |-> 0, fmt |-> "None"]) @@ (Ord.F :> [size |-> 0, fmt |-> "None"]) @@
  (Ord.i :> [size |-> 1, fmt |-> "b"]) @@ (Ord.U :> [size |-> 1, fmt |-> "B"]) @@
  (Ord.I :> [size |-> 2, fmt |-> "h"]) @@ (Ord.u :> [size |-> 2, fmt |-> "H"]) @@
  (Ord.l :> [size |-> 4, fmt |-> "i"]) @@ (Ord.m :> [size |-> 4, fmt |-> "I"]) @@
  (Ord.L :> [size |-> 8, fmt |-> "q"]) @@ (Ord.M :> [size |-> 8, fmt |-> "Q"]) @@
  (Ord.h :> [size |-> 2, fmt |-> "e"]) @@ (Ord.d :> [size |-> 4, fmt |-> "f"]) @@
  (Ord.D :> [size |-> 8, fmt |-> "d"]) @@ (Ord.C :> [size |-> 1, fmt |-> "B"]) @@
  (Ord.B :> [size |-> 1, fmt |-> "B"])

INT_TYPES   == {Ord.i, Ord.U, Ord.I, Ord.u, Ord.l, Ord.m, Ord.L, Ord.M}
NUM_TYPES   == INT_TYPES \cup {Ord.h, Ord.d, Ord.D}
FIXED_TYPES == NUM_TYPES \cup {Ord.C, Ord.B}

\* m is a bytes object (a sequence of at most one byte here); b'' and None are
\* both <<>>: the source tests them by truth value and by equality only.
IsByte(m, set) == Len(m) = 1 /\ m[1] \in set
InMarkers(m)   == IsByte(m, DOMAIN Markers)
SizeOf(m)      == Markers[m[1]].size
FmtOf(m)       == Markers[m[1]].fmt

\* Little-endian unsigned and two's-complement signed readings of bs.
RECURSIVE LEUnsigned(_)
LEUnsigned(bs) == IF bs = <<>> THEN 0 ELSE Head(bs) + 256 * LEUnsigned(Tail(bs))

RECURSIVE LESigned(_)
LESigned(bs) ==
  IF Len(bs) = 1 THEN (IF bs[1] >= 128 THEN bs[1] - 256 ELSE bs[1])
  ELSE Head(bs) + 256 * LESigned(Tail(bs))

\* struct.unpack(fmt, bs)[0] for the formats of the marker table.
Unpack(fmt, bs) ==
  IF fmt \in {"B", "H", "I", "Q"} THEN VInt(LEUnsigned(bs))
  ELSE IF fmt \in {"b", "h", "i", "q"} THEN VInt(LESigned(bs))
  ELSE VFloat(bs)

(***************************************************************************)
(* bytes.decode('utf-8', errors='replace')                                 *)
(***************************************************************************)
IsCont(b) == 128 <= b /\ b <= 191

\* The decoding of the sequence that starts at the head of bs:
\* [n: bytes consumed, cp: code point, bad: an invalid sequence was replaced].
\* An invalid or cut sequence is replaced, as a whole maximal prefix of a
\* well-formed sequence, by U+FFFD.
Utf8Bad(k) == [n |-> k, cp |-> 65533, bad |-> TRUE]
Utf8Good(k, cp) == [n |-> k, cp |-> cp, bad |-> FALSE]
\* The range allowed to the second byte after lead byte b0.
Utf8Second(b0, b1) ==
  /\ (IF b0 = 224 THEN 160 ELSE IF b0 = 240 THEN 144 ELSE 128) <= b1
  /\ b1 <= (IF b0 = 237 THEN 159 ELSE IF b0 = 244 THEN 143 ELSE 191)

Utf8Seq(bs, b0, ok2, ok3, ok4) ==
  IF b0 < 128 THEN Utf8Good(1, b0)
  ELSE IF 194 <= b0 /\ b0 <= 223 THEN
    (IF ok2 THEN Utf8Good(2, (b0 - 192) * 64 + (bs[2] - 128)) ELSE Utf8Bad(1))
  ELSE IF 224 <= b0 /\ b0 <= 239 THEN
    (IF ~ok2 THEN Utf8Bad(1)
     ELSE IF ~ok3 THEN Utf8Bad(2)
     ELSE Utf8Good(3, (b0 - 224) * 4096 + (bs[2] - 128) * 64 + (bs[3] - 128)))
  ELSE IF 240 <= b0 /\ b0 <= 244 THEN
    (IF ~ok2 THEN Utf8Bad(1)
     ELSE IF ~ok3 THEN Utf8Bad(2)
     ELSE IF ~ok4 THEN Utf8Bad(3)
     ELSE Utf8Good(4, (b0 - 240) * 262144 + (bs[2] - 128) * 4096
                      + (bs[3] - 128) * 64 + (bs[4] - 128)))
  ELSE Utf8Bad(1)

Utf8Step(bs) ==
  Utf8Seq(bs, bs[1],
          Len(bs) >= 2 /\ Utf8Second(bs[1], bs[2]),
          Len(bs) >= 3 /\ IsCont(bs[3]),
          Len(bs) >= 4 /\ IsCont(bs[4]))

RECURSIVE Utf8Decode(_)
Utf8Decode(bs) ==
  LET Rest(s) == <<s.cp>> \o Utf8Decode(SubSeq(bs, s.n + 1, Len(bs)))
  IN IF bs = <<>> THEN <<>> ELSE Rest(Utf8Step(bs))

\* bytes.decode('utf-8') (strict) raises UnicodeDecodeError exactly when the
\* lossy decoding had to replace something.
RECURSIVE Utf8Valid(_)
Utf8Valid(bs) ==
  LET Rest(s) == ~s.bad /\ Utf8Valid(SubSeq(bs, s.n + 1, Len(bs)))
  IN IF bs = <<>> THEN TRUE ELSE Rest(Utf8Step(bs))

(***************************************************************************)
(* str(), repr() and the f-strings of the preview values, as code points   *)
(***************************************************************************)
RECURSIVE DecNat(_)
DecNat(n) == IF n < 10 THEN <<48 + n>> ELSE DecNat(n \div 10) \o <<48 + (n % 10)>>

Dec(n) == IF n < 0 THEN <<45>> \o DecNat(0 - n) ELSE DecNat(n)

\* repr of a number as struct.unpack returns it, or of a bool.  A float is
\* written by its bit pattern ("f" and its bytes): its decimal form is outside
\* the integer model.
RECURSIVE ReprBytes(_)
ReprBytes(bs) == IF bs = <<>> THEN <<>> ELSE <<46>> \o DecNat(Head(bs)) \o ReprBytes(Tail(bs))

ReprNum(x) ==
  IF x.t = "int" THEN Dec(x.v)
  ELSE IF x.t = "bool" THEN (IF x.v THEN <<84, 114, 117, 101>> ELSE <<70, 97, 108, 115, 101>>)
  ELSE <<102>> \o ReprBytes(x.v)

RECURSIVE ReprItems(_)
ReprItems(xs) ==
  IF xs = <<>> THEN <<>>
  ELSE IF Len(xs) = 1 THEN ReprNum(xs[1])
  ELSE ReprNum(xs[1]) \o <<44, 32>> \o ReprItems(Tail(xs))

\* repr of a list of numbers: "[1, 2, 3]"
ReprList(xs) == <<91>> \o ReprItems(xs) \o <<93>>

\* "<truncated>"
TruncatedStr == <<60, 116, 114, 117, 110, 99, 97, 116, 101, 100, 62>>
\* f"<{count} values: {vals[:4]}...>"
ValuesPreview(count, vals) ==
  <<60>> \o Dec(count) \o <<32, 118, 97, 108, 117, 101, 115, 58, 32>> \o ReprList(PySlice(vals, 0, 4)) \o <<46, 46, 46, 62>>
\* 'col' if col_major else 'row'
MajorStr(col_major) == IF col_major THEN <<99, 111, 108>> ELSE <<114, 111, 119>>
\* f"<{dims} {'col' if col_major else 'row'}: truncated>"
NdTruncated(dims, col_major) ==
  <<60>> \o ReprList(dims) \o <<32>> \o MajorStr(col_major) \o <<58, 32, 116, 114, 117, 110, 99, 97, 116, 101, 100, 62>>
\* f"<{dims} {'col' if col_major else 'row'}: {vals[:4]}...>"
NdPreview(dims, col_major, vals) ==
  <<60>> \o ReprList(dims) \o <<32>> \o MajorStr(col_major) \o <<58, 32>>
         \o ReprList(PySlice(vals, 0, 4)) \o <<46, 46, 46, 62>>

(***************************************************************************)
(* BJDataReader: cursor primitives                                         *)
(*                                                                         *)
(* A method's statements are chained through operators named after the     *)
(* method: each takes the outcome of the statement before it and either    *)
(* hands the exception on or goes on with the next statement.              *)
(***************************************************************************)
\* remaining()
remaining(d, p) == Len(d) - p

\* A read that reports the end of the buffer, not the cursor, in its EOFError
\* and leaves the cursor there: what error locality rules out.
read_reporting_end(d, p, n) ==
  IF p + n > Len(d) THEN Fail("EOFError", Len(d), Len(d))
  ELSE Ok(PySlice(d, p, p + n), p + n)

\* read(n): the bytes data[pos:pos+n] and the cursor moved by n; EOFError
\* "EOF at {pos}" when pos + n > len(data), the cursor left where it was.
read(d, p, n) ==
  IF p + n > Len(d) THEN Fail("EOFError", p, p)
  ELSE Ok(PySlice(d, p, p + n), p + n)

\* peek(n=1)
peek(d, p) == PySlice(d, p, p + 1)

\* return <list>: the outcome r of a comprehension, as a list value.
ListOf(r) == IF r.ok THEN Ok(VList(r.val), r.pos) ELSE r

\* struct.unpack(fmt, bs)[0] on the bytes a read returned (r), fmt and size
\* the marker's: TypeError for the format None, struct.error when the read
\* returned fewer bytes than the format takes.
UnpackRead(marker, r) ==
  IF FmtOf(marker) = "None" THEN Fail("TypeError", r.pos, r.pos)
  ELSE IF Len(r.val) # SizeOf(marker) THEN Fail("StructError", r.pos, r.pos)
  ELSE Ok(Unpack(FmtOf(marker), r.val), r.pos)

\* struct.unpack(fmt, self.read(size))[0], r the read.
UnpackOf(marker, r) == IF ~r.ok THEN r ELSE UnpackRead(marker, r)

\* read_int(marker): the size/format lookup and the unpack of the payload.
read_int_m(d, p, marker) ==
  IF ~InMarkers(marker) THEN Fail("KeyError", p, p)
  ELSE UnpackOf(marker, read(d, p, SizeOf(marker)))

\* read_int(): marker is None, so it is read first (m).
read_int_marked(d, m) == IF ~m.ok THEN m ELSE read_int_m(d, m.pos, m.val)

read_int(d, p) == read_int_marked(d, read(d, p, 1))

\* A float read where the code needs an integer: 0.0 and -0.0 are falsy.
FloatIsZero(x) == \A k \in 1..Len(x.v) : x.v[k] = 0 \/ (k = Len(x.v) /\ x.v[k] = 128)

\* read_string(): .decode('utf-8', errors='replace') of the bytes read (r)
read_string_decode(r) == IF ~r.ok THEN r ELSE Ok(VStr(Utf8Decode(r.val)), r.pos)

\* read_string(): l is what read_int returned for the length
read_string_sized(d, l) ==
  IF ~l.ok THEN l
  ELSE IF l.val.t = "float" THEN
    (IF FloatIsZero(l.val) THEN Ok(VStr(<<>>), l.pos)
     ELSE Fail("FloatArith", l.pos, l.pos))
  ELSE IF l.val.v = 0 THEN Ok(VStr(<<>>), l.pos)
  ELSE read_string_decode(read(d, l.pos, l.val.v))

\* read_string()
read_string(d, p) == read_string_sized(d, read_int(d, p))

\* [struct.unpack(fmt, self.read(size))[0] for _ in range(k)], acc the values
\* read so far.  fmt None makes unpack raise TypeError after the (empty) read.
RECURSIVE ReadUnpacked(_, _, _, _, _)
ReadUnpackedNext(d, marker, k, acc, u) ==
  IF ~u.ok THEN u ELSE ReadUnpacked(d, u.pos, marker, k - 1, Append(acc, u.val))

ReadUnpacked(d, p, marker, k, acc) ==
  IF k <= 0 THEN Ok(acc, p)
  ELSE ReadUnpackedNext(d, marker, k, acc,
                        UnpackOf(marker, read(d, p, SizeOf(marker))))

\* [self.read(1) == b'T' for _ in range(k)]
RECURSIVE ReadBools(_, _, _, _)
ReadBoolsNext(d, k, acc, r) ==
  IF ~r.ok THEN r
  ELSE ReadBools(d, r.pos, k - 1, Append(acc, VBool(r.val = <<Ord.T>>)))

ReadBools(d, p, k, acc) ==
  IF k <= 0 THEN Ok(acc, p) ELSE ReadBoolsNext(d, k, acc, read(d, p, 1))

\* read_typed_values: self.read((count - len(vals)) * size) (skip) and the
\* preview string returned.
read_typed_values_skipped(count, vals, skip) ==
  IF ~skip.ok THEN skip
  ELSE Ok(VStr(ValuesPreview(count.v, vals.val)), skip.pos)

\* read_typed_values: the branch count > max_data, vals the values decoded.
read_typed_values_preview(d, marker, count, vals) ==
  IF ~vals.ok THEN vals
  ELSE read_typed_values_skipped(
         count, vals, read(d, vals.pos, (count.v - Len(vals.val)) * SizeOf(marker)))

\* read_typed_values(marker, count); count is the value read_int returned.
read_typed_values(d, md, p, marker, count) ==
  IF count.t = "float" THEN
    (IF IsByte(marker, {Ord.T, Ord.F}) THEN Fail("TypeError", p, p)
     ELSE IF ~InMarkers(marker) THEN Fail("KeyError", p, p)
     ELSE Fail("FloatArith", p, p))
  ELSE IF IsByte(marker, {Ord.T, Ord.F}) THEN ListOf(ReadBools(d, p, count.v, <<>>))
  ELSE IF ~InMarkers(marker) THEN Fail("KeyError", p, p)
  ELSE IF count.v * SizeOf(marker) > remaining(d, p) THEN Ok(VStr(TruncatedStr), p)
  ELSE IF count.v > md THEN
    read_typed_values_preview(d, marker, count,
                              ReadUnpacked(d, p, marker, Min(8, count.v), <<>>))
  ELSE ListOf(ReadUnpacked(d, p, marker, count.v, <<>>))

(***************************************************************************)
(* BJDataReader: the value decoder                                         *)
(***************************************************************************)
\* result[key] = value on an OrderedDict: a present key keeps its place and
\* takes the new value, a new key goes last.
DictSet(pairs, k, v) ==
  IF \E j \in 1..Len(pairs) : pairs[j][1] = k
  THEN [j \in 1..Len(pairs) |-> IF pairs[j][1] = k THEN <<k, v>> ELSE pairs[j]]
  ELSE Append(pairs, <<k, v>>)

\* total *= d, on the kinds of value a dimension list can hold: the product of
\* integers (a bool counts as 0 or 1); int * str and int * list are sequences
\* (kind "seq", their content is never used); anything else is a TypeError.
MulDim(acc, x) ==
  IF acc.k = "err" \/ x.t \in {"none", "dict"} THEN [k |-> "err", n |-> 0]
  ELSE IF acc.k = "int" THEN
    (IF x.t = "int" THEN [k |-> "int", n |-> acc.n * x.v]
     ELSE IF x.t = "bool" THEN [k |-> "int", n |-> IF x.v THEN acc.n ELSE 0]
     ELSE IF x.t = "float" THEN [k |-> "float", n |-> 0]
     ELSE [k |-> "seq", n |-> 0])
  ELSE IF acc.k = "seq" THEN
    (IF x.t \in {"int", "bool"} THEN acc ELSE [k |-> "err", n |-> 0])
  ELSE (IF x.t \in {"int", "bool", "float"} THEN acc ELSE [k |-> "err", n |-> 0])

RECURSIVE DimProduct(_, _)
DimProduct(acc, xs) ==
  IF xs = <<>> THEN acc ELSE DimProduct(MulDim(acc, Head(xs)), Tail(xs))

\* The items `for d in dims` visits: the elements of a list, the characters of
\* a str (read_dims hands on what read_typed_values returned).
DimItems(dims) ==
  IF dims.t = "str" THEN [j \in 1..Len(dims.v) |-> VStr(<<dims.v[j]>>)] ELSE dims.v

\* total = 1; for d in dims: total *= d
TotalOf(dims) == DimProduct([k |-> "int", n |-> 1], DimItems(dims))

\* read_nd_array: self.read((total - len(vals)) * size) (skip) and the
\* preview string returned.
read_nd_array_skipped(dims, col_major, vals, skip) ==
  IF ~skip.ok THEN skip
  ELSE Ok(VStr(NdPreview(dims.v, col_major, vals.val)), skip.pos)

\* read_nd_array: the branch total > max_data, vals the values decoded.
read_nd_array_preview(d, elem_type, dims, col_major, total, vals) ==
  IF ~vals.ok THEN vals
  ELSE read_nd_array_skipped(
         dims, col_major, vals,
         read(d, vals.pos, (total.n - Len(vals.val)) * SizeOf(elem_type)))

\* read_nd_array, total the product of the dimensions.
read_nd_array_sized(d, md, p, elem_type, dims, col_major, total) ==
  IF total.k = "err" THEN Fail("TypeError", p, p)
  ELSE IF ~InMarkers(elem_type) THEN Fail("KeyError", p, p)
  ELSE IF total.k = "seq" THEN Fail("TypeError", p, p)
  ELSE IF total.k = "float" THEN Fail("FloatArith", p, p)
  ELSE IF total.n * SizeOf(elem_type) > remaining(d, p)
    THEN Ok(VStr(NdTruncated(dims.v, col_major)), p)
  ELSE IF total.n > md THEN
    read_nd_array_preview(d, elem_type, dims, col_major, total,
                          ReadUnpacked(d, p, elem_type, Min(8, total.n), <<>>))
  ELSE ListOf(ReadUnpacked(d, p, elem_type, total.n, <<>>))

\* read_nd_array(elem_type, dims, col_major)
read_nd_array(d, md, p, elem_type, dims, col_major) ==
  read_nd_array_sized(d, md, p, elem_type, dims, col_major, TotalOf(dims))

\* [self.read_int() for _ in range(k)]
RECURSIVE ReadInts(_, _, _, _)
ReadIntsNext(d, k, acc, r) ==
  IF ~r.ok THEN r ELSE ReadInts(d, r.pos, k - 1, Append(acc, r.val))

ReadInts(d, p, k, acc) ==
  IF k <= 0 THEN Ok(acc, p) ELSE ReadIntsNext(d, k, acc, read_int(d, p))

RECURSIVE read_value(_, _, _)
RECURSIVE read_array(_, _, _)
RECURSIVE read_dims(_, _, _)
RECURSIVE read_object(_, _, _)
RECURSIVE read_soa(_, _, _, _)
RECURSIVE ReadValues(_, _, _, _, _)
RECURSIVE ReadUntil(_, _, _, _, _)
RECURSIVE ObjectLoop(_, _, _, _, _, _, _)

\* [self.read_value() for _ in range(k)]
ReadValuesNext(d, md, k, acc, r) ==
  IF ~r.ok THEN r ELSE ReadValues(d, md, r.pos, k - 1, Append(acc, r.val))

ReadValues(d, md, p, k, acc) ==
  IF k <= 0 THEN Ok(acc, p) ELSE ReadValuesNext(d, md, k, acc, read_value(d, md, p))

\* while self.peek() != close: acc.append(self.read_value())
ReadUntilNext(d, md, close, acc, r) ==
  IF ~r.ok THEN r ELSE ReadUntil(d, md, r.pos, close, Append(acc, r.val))

ReadUntil(d, md, p, close, acc) ==
  IF peek(d, p) = <<close>> THEN Ok(acc, p)
  ELSE ReadUntilNext(d, md, close, acc, read_value(d, md, p))

\* self.read(1) after the loop `while self.peek() != b']'` (cl), and the
\* return of the list.
ClosedListEnd(r, cl) == IF ~cl.ok THEN cl ELSE Ok(VList(r.val), cl.pos)

ClosedList(d, r) == IF ~r.ok THEN r ELSE ClosedListEnd(r, read(d, r.pos, 1))

\* read_value: chr(self.read(1)[0]) for C, self.read(1)[0] for B
read_value_byte(m, r) ==
  IF ~r.ok THEN r
  ELSE IF r.val = <<>> THEN Fail("IndexError", r.pos, r.pos)
  ELSE IF m = <<Ord.C>> THEN Ok(VStr(r.val), r.pos)
  ELSE Ok(VInt(r.val[1]), r.pos)

\* read_value: the dispatch on the marker m, the cursor (q) after it
read_value_dispatch(d, md, m, q) ==
  \* the log line's f-string indexes marker[0]
  IF m = <<>> THEN Fail("IndexError", q, q)
  ELSE IF m = <<Ord.Z>> THEN Ok(VNone, q)
  ELSE IF m = <<Ord.N>> THEN read_value(d, md, q)
  ELSE IF m = <<Ord.T>> THEN Ok(VBool(TRUE), q)
  ELSE IF m = <<Ord.F>> THEN Ok(VBool(FALSE), q)
  ELSE IF IsByte(m, NUM_TYPES) THEN UnpackOf(m, read(d, q, SizeOf(m)))
  ELSE IF IsByte(m, {Ord.C, Ord.B}) THEN read_value_byte(m, read(d, q, 1))
  ELSE IF IsByte(m, {Ord.S, Ord.H}) THEN read_string(d, q)
  ELSE IF m = <<Ord.lbr>> THEN read_array(d, md, q)
  ELSE IF m = <<Ord.lbrace>> THEN read_object(d, md, q)
  ELSE Fail("ValueError", q - 1, q)

\* read_value: mk is marker = self.read(1)
read_value_marked(d, md, mk) ==
  IF ~mk.ok THEN mk ELSE read_value_dispatch(d, md, mk.val, mk.pos)

\* read_value()
read_value(d, md, p) == read_value_marked(d, md, read(d, p, 1))

\* The `$<type>` prefix of read_array, read_dims and read_object:
\* [ok, pos, elem_type] or the exception.  elem_type <<>> stands for None.
TypePrefixType(logged, r2) ==
  IF ~r2.ok THEN r2
  \* the log line's f-string indexes elem_type[0]
  ELSE IF logged /\ r2.val = <<>> THEN Fail("IndexError", r2.pos, r2.pos)
  ELSE r2

TypePrefixDollar(d, logged, r1) ==
  IF ~r1.ok THEN r1 ELSE TypePrefixType(logged, read(d, r1.pos, 1))

TypePrefix(d, p, logged) ==
  IF peek(d, p) # <<Ord.dollar>> THEN Ok(<<>>, p)
  ELSE TypePrefixDollar(d, logged, read(d, p, 1))

\* The `#[dims]` / `#[[dims]]` shape that read_array and read_soa read after
\* '#': the cursor is on '['.  [ok, pos, val |-> [dims, col_major]].
\* r3: the read of the second ']' of a column-major shape.
ReadShapeEnd(col_major, dm, r3) ==
  IF ~r3.ok THEN r3 ELSE Ok([dims |-> dm.val, col_major |-> col_major], r3.pos)

\* dm: what read_dims returned
ReadShapeDims(d, col_major, dm) ==
  IF ~dm.ok THEN dm
  ELSE IF col_major /\ peek(d, dm.pos) = <<Ord.rbr>>
    THEN ReadShapeEnd(col_major, dm, read(d, dm.pos, 1))
  ELSE ReadShapeEnd(col_major, dm, dm)

\* r2: the read of the second '[' of a column-major shape
ReadShapeInner(d, md, col_major, r2) ==
  IF ~r2.ok THEN r2 ELSE ReadShapeDims(d, col_major, read_dims(d, md, r2.pos))

\* r1: the read of '['
ReadShapeOuter(d, md, r1) ==
  IF ~r1.ok THEN r1
  ELSE ReadShapeInner(d, md, peek(d, r1.pos) = <<Ord.lbr>>,
                      IF peek(d, r1.pos) = <<Ord.lbr>> THEN read(d, r1.pos, 1) ELSE r1)

ReadShape(d, md, p) == ReadShapeOuter(d, md, read(d, p, 1))

\* read_array: count = self.read_int() (c) and the elements
read_array_counted(d, md, elem_type, c) ==
  IF ~c.ok THEN c
  ELSE IF elem_type # <<>> THEN read_typed_values(d, md, c.pos, elem_type, c.val)
  ELSE IF c.val.t = "float" THEN Fail("TypeError", c.pos, c.pos)
  ELSE ListOf(ReadValues(d, md, c.pos, c.val.v, <<>>))

\* read_array: the shape (sh) of an N-dimensional array and its elements
read_array_shaped(d, md, elem_type, sh) ==
  IF ~sh.ok THEN sh
  ELSE read_nd_array(d, md, sh.pos, elem_type, sh.val.dims, sh.val.col_major)

\* read_array: after '#' (h is its read)
read_array_hash(d, md, elem_type, h) ==
  IF ~h.ok THEN h
  ELSE IF peek(d, h.pos) = <<Ord.lbr>>
    THEN read_array_shaped(d, md, elem_type, ReadShape(d, md, h.pos))
  ELSE read_array_counted(d, md, elem_type, read_int(d, h.pos))

\* read_array: after the optional '$<type>' (tp)
read_array_typed(d, md, tp) ==
  IF ~tp.ok THEN tp
  ELSE IF tp.val = <<Ord.lbrace>> THEN read_soa(d, md, tp.pos, "row")
  ELSE IF peek(d, tp.pos) = <<Ord.hash>> THEN
    read_array_hash(d, md, tp.val, read(d, tp.pos, 1))
  ELSE ClosedList(d, ReadUntil(d, md, tp.pos, Ord.rbr, <<>>))

\* read_array()
read_array(d, md, p) == read_array_typed(d, md, TypePrefix(d, p, TRUE))

\* Truth value of a count that read_int returned.
Truthy(x) == IF x.t = "float" THEN ~FloatIsZero(x) ELSE x.v # 0

\* read_dims: the dimension list after the optional '$<type>' and '#<count>';
\* counted tells whether a count was read, c is the count (its cursor and value).
read_dims_counted(d, md, elem_type, counted, c) ==
  IF ~c.ok THEN c
  ELSE IF counted /\ Truthy(c.val) /\ elem_type # <<>> THEN
    read_typed_values(d, md, c.pos, elem_type, c.val)
  ELSE IF counted /\ Truthy(c.val) THEN
    (IF c.val.t = "float" THEN Fail("TypeError", c.pos, c.pos)
     ELSE ListOf(ReadInts(d, c.pos, c.val.v, <<>>)))
  ELSE ClosedList(d, ReadUntil(d, md, c.pos, Ord.rbr, <<>>))

\* read_dims: after '#' (h is its read)
read_dims_hash(d, md, elem_type, h) ==
  IF ~h.ok THEN h ELSE read_dims_counted(d, md, elem_type, TRUE, read_int(d, h.pos))

\* read_dims: after the optional '$<type>' (tp)
read_dims_typed(d, md, tp) ==
  IF ~tp.ok THEN tp
  ELSE IF peek(d, tp.pos) = <<Ord.hash>> THEN
    read_dims_hash(d, md, tp.val, read(d, tp.pos, 1))
  ELSE read_dims_counted(d, md, tp.val, FALSE, Ok(VNone, tp.pos))

\* read_dims()
read_dims(d, md, p) == read_dims_typed(d, md, TypePrefix(d, p, FALSE))

\* The while loop of read_object: count is VNone (no '#') or what read_int
\* returned, i the pairs read so far, acc the OrderedDict.
\* v: the value read for the key
ObjectLoopStored(d, md, elem_type, count, i, acc, key, v) ==
  IF ~v.ok THEN v
  ELSE ObjectLoop(d, md, v.pos, elem_type, count, i + 1, DictSet(acc, key, v.val))

\* struct.unpack(fmt, self.read(size))[0]
ObjectLoopTyped(u) == IF u.ok THEN Ok(u.val[1], u.pos) ELSE u

\* kb: the read of the key's bytes
ObjectLoopKeyed(d, md, elem_type, count, i, acc, kb) ==
  IF ~kb.ok THEN kb
  ELSE IF elem_type = <<>> THEN
    ObjectLoopStored(d, md, elem_type, count, i, acc, Utf8Decode(kb.val),
                     read_value(d, md, kb.pos))
  ELSE IF ~InMarkers(elem_type) THEN Fail("KeyError", kb.pos, kb.pos)
  ELSE ObjectLoopStored(d, md, elem_type, count, i, acc, Utf8Decode(kb.val),
                        ObjectLoopTyped(ReadUnpacked(d, kb.pos, elem_type, 1, <<>>)))

\* n: what read_int returned for the key's length
ObjectLoopSized(d, md, elem_type, count, i, acc, n) ==
  IF ~n.ok THEN n
  ELSE IF n.val.t = "float" THEN Fail("FloatArith", n.pos, n.pos)
  ELSE ObjectLoopKeyed(d, md, elem_type, count, i, acc, read(d, n.pos, n.val.v))

ObjectLoop(d, md, p, elem_type, count, i, acc) ==
  IF count.t = "float" THEN Fail("FloatArith", p, p)
  ELSE IF ~(  (count.t = "none" /\ peek(d, p) # <<Ord.rbrace>>)
           \/ (count.t # "none" /\ i < count.v)) THEN Ok(acc, p)
  ELSE ObjectLoopSized(d, md, elem_type, count, i, acc, read_int(d, p))

\* read_object: self.read(1) of '}' (cl) and the return of the dict
read_object_closed(r, cl) == IF ~cl.ok THEN cl ELSE Ok(VDict(r.val), cl.pos)

\* read_object: r the pairs the loop read
read_object_pairs(d, counted, r) ==
  IF ~r.ok THEN r
  ELSE IF counted THEN Ok(VDict(r.val), r.pos)
  ELSE read_object_closed(r, read(d, r.pos, 1))

\* read_object: the loop, after the optional '#<count>' (c)
read_object_counted(d, md, elem_type, counted, c) ==
  IF ~c.ok THEN c
  ELSE read_object_pairs(d, counted,
                         ObjectLoop(d, md, c.pos, elem_type, c.val, 0, <<>>))

\* read_object: after '#' (h is its read)
read_object_hash(d, md, elem_type, h) ==
  IF ~h.ok THEN h ELSE read_object_counted(d, md, elem_type, TRUE, read_int(d, h.pos))

\* read_object: after the optional '$<type>' (tp)
read_object_typed(d, md, tp) ==
  IF ~tp.ok THEN tp
  ELSE IF tp.val = <<Ord.lbrace>> THEN read_soa(d, md, tp.pos, "column")
  ELSE IF peek(d, tp.pos) = <<Ord.hash>> THEN
    read_object_hash(d, md, tp.val, read(d, tp.pos, 1))
  ELSE read_object_counted(d, md, tp.val, FALSE, Ok(VNone, tp.pos))

\* read_object()
read_object(d, md, p) == read_object_typed(d, md, TypePrefix(d, p, TRUE))

(***************************************************************************)
(* BJDataReader: SOA schema                                                *)
(***************************************************************************)
\* A schema field (the dict read_field_type returns); a key the source's dict
\* does not hold is "", <<>> or FALSE here.  has_offsets tells whether
\* decode_soa stored 'offsets' and 'strbuf' in it.
Field(name, type, enc, bytes) ==
  [name |-> name, type |-> type, enc |-> enc, bytes |-> bytes, fmt |-> "",
   marker |-> <<>>, dict |-> <<>>, index_marker |-> <<>>, index_fmt |-> "",
   elems |-> <<>>, schema |-> <<>>, has_offsets |-> FALSE, offsets |-> <<>>,
   strbuf |-> <<>>]

\* An element of a fixed-array field.
Elem(type, bytes, fmt, marker) ==
  [type |-> type, bytes |-> bytes, fmt |-> fmt, marker |-> marker]

RECURSIVE SumBytes(_)
SumBytes(fs) == IF fs = <<>> THEN 0 ELSE Head(fs).bytes + SumBytes(Tail(fs))

\* [self.read_string() for _ in range(k)]
RECURSIVE ReadStrings(_, _, _, _)
ReadStringsNext(d, k, acc, r) ==
  IF ~r.ok THEN r ELSE ReadStrings(d, r.pos, k - 1, Append(acc, r.val.v))

ReadStrings(d, p, k, acc) ==
  IF k <= 0 THEN Ok(acc, p) ELSE ReadStringsNext(d, k, acc, read_string(d, p))

\* The element loop of a fixed-array field, "[ddd]" or "[TTT]":
\* while self.peek() != b']': ... ; a marker that is neither in FIXED_TYPES
\* nor T/F is read and adds no element.
RECURSIVE ReadElems(_, _, _)
ReadElemsNext(d, acc, r) ==
  IF ~r.ok THEN r
  ELSE IF IsByte(r.val, FIXED_TYPES) THEN
    ReadElems(d, r.pos, Append(acc, Elem("fixed", SizeOf(r.val), FmtOf(r.val), r.val)))
  ELSE IF IsByte(r.val, {Ord.T, Ord.F}) THEN
    ReadElems(d, r.pos, Append(acc, Elem("bool", 1, "", <<>>)))
  ELSE ReadElems(d, r.pos, acc)

ReadElems(d, p, acc) ==
  IF peek(d, p) = <<Ord.rbr>> THEN Ok(acc, p) ELSE ReadElemsNext(d, acc, read(d, p, 1))

\* The "Fixed array" part of read_field_type, the cursor after '[' (and after
\* a '$<inner>' that named neither a string nor an integer type).
\* cl: the read of ']'
FixedArrayFieldEnd(name, es, cl) ==
  IF ~cl.ok THEN cl
  ELSE Ok([Field(name, "array", "", SumBytes(es.val)) EXCEPT !.elems = es.val], cl.pos)

\* es: the elements the loop read
FixedArrayFieldElems(d, name, es) ==
  IF ~es.ok THEN es ELSE FixedArrayFieldEnd(name, es, read(d, es.pos, 1))

FixedArrayField(d, p, name) == FixedArrayFieldElems(d, name, ReadElems(d, p, <<>>))

\* index_bytes and index_marker of a dictionary of n entries.
IndexBytes(n)  == IF n <= 255 THEN 1 ELSE IF n <= 65535 THEN 2 ELSE 4
IndexMarker(n) ==
  IF IndexBytes(n) = 1 THEN <<Ord.U>> ELSE IF IndexBytes(n) = 2 THEN <<Ord.u>> ELSE <<Ord.m>>

\* The dictionary string field "[$S#<n><strings>", the cursor after the inner
\* marker: one byte is read as '#' without being looked at.
\* ss: the dictionary's strings
DictFieldEntries(name, n, ss) ==
  IF ~ss.ok THEN ss
  ELSE Ok([Field(name, "str", "dict", IndexBytes(n)) EXCEPT
             !.dict = ss.val, !.index_marker = IndexMarker(n)], ss.pos)

\* n: num_entries = self.read_int()
DictFieldCounted(d, name, n) ==
  IF ~n.ok THEN n
  ELSE IF n.val.t = "float" THEN Fail("TypeError", n.pos, n.pos)
  ELSE DictFieldEntries(name, n.val.v, ReadStrings(d, n.pos, n.val.v, <<>>))

\* h: the read of '#'
DictFieldHash(d, name, h) ==
  IF ~h.ok THEN h ELSE DictFieldCounted(d, name, read_int(d, h.pos))

DictField(d, p, name) == DictFieldHash(d, name, read(d, p, 1))

\* The offset string field "[$<int-type>]", the cursor after the inner marker:
\* one byte is read as ']' without being looked at (cl).
OffsetFieldEnd(name, inner, cl) ==
  IF ~cl.ok THEN cl
  ELSE Ok([Field(name, "str", "offset", SizeOf(inner)) EXCEPT
             !.index_marker = inner, !.index_fmt = FmtOf(inner)], cl.pos)

OffsetField(d, p, name, inner) == OffsetFieldEnd(name, inner, read(d, p, 1))

RECURSIVE read_schema(_, _, _)
RECURSIVE read_field_type(_, _, _)
RECURSIVE SchemaLoop(_, _, _)

\* read_field_type: the fixed-length string, n its 'bytes' = self.read_int()
read_field_type_str(name, n) ==
  IF ~n.ok THEN n
  ELSE IF n.val.t = "float" THEN Fail("FloatArith", n.pos, n.pos)
  ELSE Ok(Field(name, "str", "fixed", n.val.v), n.pos)

\* read_field_type: after "[$", inner = self.read(1)
read_field_type_inner(d, name, inner) ==
  IF ~inner.ok THEN inner
  ELSE IF IsByte(inner.val, {Ord.S, Ord.H}) THEN DictField(d, inner.pos, name)
  ELSE IF IsByte(inner.val, INT_TYPES) THEN OffsetField(d, inner.pos, name, inner.val)
  ELSE FixedArrayField(d, inner.pos, name)

\* read_field_type: the nested struct, sub its schema
read_field_type_struct(name, sub) ==
  IF ~sub.ok THEN sub
  ELSE Ok([Field(name, "struct", "", SumBytes(sub.val)) EXCEPT !.schema = sub.val], sub.pos)

\* read_field_type: the dispatch on the peeked marker; q is the cursor after
\* self.read(1) of it.
read_field_type_marked(d, p, name, marker, q) ==
  IF IsByte(marker, FIXED_TYPES) THEN
    Ok([Field(name, "fixed", "", SizeOf(marker)) EXCEPT
          !.fmt = FmtOf(marker), !.marker = marker], q)
  ELSE IF IsByte(marker, {Ord.T, Ord.F}) THEN Ok(Field(name, "bool", "", 1), q)
  ELSE IF marker = <<Ord.Z>> THEN Ok(Field(name, "null", "", 0), q)
  ELSE IF IsByte(marker, {Ord.S, Ord.H}) THEN read_field_type_str(name, read_int(d, q))
  ELSE IF marker = <<Ord.lbr>> THEN
    (IF peek(d, q) = <<Ord.dollar>> THEN read_field_type_inner(d, name, read(d, q + 1, 1))
     ELSE FixedArrayField(d, q, name))
  ELSE IF marker = <<Ord.lbrace>> THEN read_field_type_struct(name, read_schema(d, q, TRUE))
  ELSE Fail("ValueError", p, p)

\* read_field_type(name)
read_field_type(d, p, name) == read_field_type_marked(d, p, name, peek(d, p), p + 1)

\* while self.peek() != b'}': name = ...; schema.append(self.read_field_type(name))
\* f: the field read_field_type returned
SchemaLoopTyped(d, acc, f) ==
  IF ~f.ok THEN f ELSE SchemaLoop(d, f.pos, Append(acc, f.val))

\* nb: the read of the name's bytes
SchemaLoopNamed(d, acc, nb) ==
  IF ~nb.ok THEN nb
  ELSE IF ~Utf8Valid(nb.val) THEN Fail("UnicodeDecodeError", nb.pos, nb.pos)
  ELSE SchemaLoopTyped(d, acc, read_field_type(d, nb.pos, Utf8Decode(nb.val)))

\* n: what read_int returned for the name's length
SchemaLoopSized(d, acc, n) ==
  IF ~n.ok THEN n
  ELSE IF n.val.t = "float" THEN Fail("FloatArith", n.pos, n.pos)
  ELSE SchemaLoopNamed(d, acc, read(d, n.pos, n.val.v))

SchemaLoop(d, p, acc) ==
  IF peek(d, p) = <<Ord.rbrace>> THEN Ok(acc, p)
  ELSE SchemaLoopSized(d, acc, read_int(d, p))

\* read_schema: self.read(1) of '}' (cl)
read_schema_closed(fs, cl) == IF ~cl.ok THEN cl ELSE Ok(fs.val, cl.pos)

\* read_schema: fs the fields the loop read
read_schema_fields(d, fs) ==
  IF ~fs.ok THEN fs ELSE read_schema_closed(fs, read(d, fs.pos, 1))

\* read_schema: b the opening byte
read_schema_opened(d, b) ==
  IF ~b.ok THEN b
  ELSE IF b.val # <<Ord.lbrace>> THEN Fail("ValueError", b.pos, b.pos)
  ELSE read_schema_fields(d, SchemaLoop(d, b.pos, <<>>))

\* read_schema(brace_consumed)
read_schema(d, p, brace_consumed) ==
  read_schema_opened(d, IF brace_consumed THEN Ok(<<Ord.lbrace>>, p) ELSE read(d, p, 1))

(***************************************************************************)
(* BJDataReader: SOA records                                               *)
(***************************************************************************)
\* The outcome of decoding one field, column or record set: the value, or the
\* exception.
DOk(v)      == [ok |-> TRUE, val |-> v, err |-> ""]
DFail(kind) == [ok |-> FALSE, val |-> VNone, err |-> kind]

\* A list comprehension over outcomes: the list of the values, or the first
\* exception raised.
AllOk(rs) ==
  IF \E j \in 1..Len(rs) : ~rs[j].ok
  THEN rs[CHOOSE j \in 1..Len(rs) : ~rs[j].ok /\ \A k \in 1..(j - 1) : rs[k].ok]
  ELSE DOk([j \in 1..Len(rs) |-> rs[j].val])

\* The outcome of building a list, as a list value.
DListOf(all) == IF all.ok THEN DOk(VList(all.val)) ELSE all

\* struct.unpack(fmt, bs)[0]: struct.error unless bs has the format's size.
FmtSize(fmt) ==
  IF fmt \in {"b", "B"} THEN 1 ELSE IF fmt \in {"h", "H", "e"} THEN 2
  ELSE IF fmt \in {"i", "I", "f"} THEN 4 ELSE 8

UnpackChecked(fmt, bs) ==
  IF fmt = "None" THEN DFail("TypeError")
  ELSE IF Len(bs) # FmtSize(fmt) THEN DFail("StructError")
  ELSE DOk(Unpack(fmt, bs))

\* xs[i] on a list, with Python's negative indices.
PyIndex(xs, i) ==
  IF 0 <= i /\ i < Len(xs) THEN DOk(xs[i + 1])
  ELSE IF i < 0 /\ 0 - i <= Len(xs) THEN DOk(xs[Len(xs) + i + 1])
  ELSE DFail("IndexError")

\* str.rstrip('\x00')
RECURSIVE RStripNul(_)
RStripNul(s) ==
  IF s # <<>> /\ s[Len(s)] = Ord.nul THEN RStripNul(SubSeq(s, 1, Len(s) - 1)) ELSE s

\* data[k] == ord('T')
BoolAt(bs, k) ==
  IF k < Len(bs) THEN DOk(VBool(bs[k + 1] = Ord.T)) ELSE DFail("IndexError")

\* field['dict'][idx], idx unpacked from bs by the index marker's format
DictLookupEntry(e) == IF ~e.ok THEN e ELSE DOk(VStr(e.val))

DictLookupAt(field, idx) ==
  IF ~idx.ok THEN idx ELSE DictLookupEntry(PyIndex(field.dict, idx.val.v))

DictLookup(field, bs) == DictLookupAt(field, UnpackChecked(FmtOf(field.index_marker), bs))

\* field['strbuf'][field['offsets'][idx]:field['offsets'][idx+1]]
\* a, b: field['offsets'][idx] and field['offsets'][idx+1]
OffsetLookupSlice(field, a, b) ==
  IF ~b.ok THEN b ELSE DOk(VStr(PySlice(field.strbuf, a.val, b.val)))

OffsetLookupFrom(field, i, a) ==
  IF ~a.ok THEN a ELSE OffsetLookupSlice(field, a, PyIndex(field.offsets, i + 1))

OffsetLookupAt(field, idx) ==
  IF ~idx.ok THEN idx
  ELSE IF ~field.has_offsets THEN DFail("KeyError")
  ELSE OffsetLookupFrom(field, idx.val.v, PyIndex(field.offsets, idx.val.v))

OffsetLookup(field, bs) == OffsetLookupAt(field, UnpackChecked(field.index_fmt, bs))

\* pos before field j of a schema (or element j of a fixed array): the bytes
\* of the fields before it.
FieldOffset(schema, j) == SumBytes(SubSeq(schema, 1, j - 1))

\* The elements of one fixed-array value.  decode_field indexes the field's
\* bytes (whole = TRUE); decode_column slices the element out first and
\* indexes the slice.
ArrayElem(el, bs, o, whole) ==
  IF el.type = "fixed" THEN UnpackChecked(el.fmt, PySlice(bs, o, o + el.bytes))
  ELSE IF whole THEN BoolAt(bs, o)
  ELSE BoolAt(PySlice(bs, o, o + el.bytes), 0)

ArrayValue(elems, bs, base, whole) ==
  DListOf(AllOk([k \in 1..Len(elems) |->
                   ArrayElem(elems[k], bs, base + FieldOffset(elems, k), whole)]))

\* OrderedDict of the values vals[j] under the names of the schema's fields.
RECURSIVE BuildRecord(_, _, _, _)
BuildRecord(schema, vals, j, acc) ==
  IF j > Len(schema) THEN acc
  ELSE BuildRecord(schema, vals, j + 1, DictSet(acc, schema[j].name, vals[j]))

RECURSIVE decode_field(_, _, _)
RECURSIVE decode_struct(_, _)
RECURSIVE decode_column(_, _, _)

\* The record at pos base of bs: decode_field on each field's slice.
RecordOf(schema, all) ==
  IF ~all.ok THEN all ELSE DOk(VDict(BuildRecord(schema, all.val, 1, <<>>)))

RecordAt(schema, bs, base, idx) ==
  RecordOf(schema,
           AllOk([j \in 1..Len(schema) |->
                    decode_field(schema[j],
                                 PySlice(bs, base + FieldOffset(schema, j),
                                         base + FieldOffset(schema, j) + schema[j].bytes),
                                 idx)]))

\* decode_struct(schema, data)
decode_struct(schema, bs) == RecordAt(schema, bs, 0, 0)

\* decode_field(field, data, idx): one field of one record (row-major)
decode_field(field, bs, idx) ==
  IF field.type = "fixed" THEN UnpackChecked(field.fmt, bs)
  ELSE IF field.type = "bool" THEN BoolAt(bs, 0)
  ELSE IF field.type = "null" THEN DOk(VNone)
  ELSE IF field.type = "str" THEN
    (IF field.enc = "fixed" THEN DOk(VStr(RStripNul(Utf8Decode(bs))))
     ELSE IF field.enc = "dict" THEN DictLookup(field, bs)
     ELSE OffsetLookup(field, bs))
  ELSE IF field.type = "array" THEN ArrayValue(field.elems, bs, 0, TRUE)
  ELSE IF field.type = "struct" THEN decode_struct(field.schema, bs)
  ELSE DOk(VNone)

\* Value k of a column: data[k*fbytes:(k+1)*fbytes] decoded by the field's type.
\* cell: data[k*fbytes:(k+1)*fbytes]
ColumnCellOf(field, bs, k, cell) ==
  IF field.type = "fixed" THEN UnpackChecked(field.fmt, cell)
  ELSE IF field.type = "bool" THEN BoolAt(bs, k)
  ELSE IF field.type = "null" THEN DOk(VNone)
  ELSE IF field.type = "str" THEN
    (IF field.enc = "fixed" THEN DOk(VStr(RStripNul(Utf8Decode(cell))))
     ELSE IF field.enc = "dict" THEN DictLookup(field, cell)
     ELSE OffsetLookup(field, cell))
  ELSE IF field.type = "array" THEN ArrayValue(field.elems, bs, k * field.bytes, FALSE)
  ELSE IF field.type = "struct" THEN decode_struct(field.schema, cell)
  ELSE DOk(VNone)

ColumnCell(field, bs, k) ==
  ColumnCellOf(field, bs, k, PySlice(bs, k * field.bytes, (k + 1) * field.bytes))

\* decode_column(field, data, count): the count values of one field
\* (column-major), data the field's contiguous run.
decode_column(field, bs, count) ==
  AllOk([j \in 1..Max(count, 0) |-> ColumnCell(field, bs, j - 1)])

\* The offset table and string buffer decode_soa reads for one offset field:
\* the field with 'offsets' and 'strbuf' set, and the cursor.
\* sb: the read of the string buffer
ReadOffsetsBuffer(field, offs, sb) ==
  IF ~sb.ok THEN sb
  ELSE Ok([field EXCEPT !.has_offsets = TRUE, !.offsets = offs,
                        !.strbuf = Utf8Decode(sb.val)], sb.pos)

\* offs: field['offsets'], q the cursor after them
ReadOffsetsTable(d, field, q, offs) ==
  IF offs = <<>> THEN Fail("IndexError", q, q)
  ELSE IF offs[Len(offs)] # 0 THEN ReadOffsetsBuffer(field, offs, read(d, q, offs[Len(offs)]))
  ELSE ReadOffsetsBuffer(field, offs, Ok(<<>>, q))

ReadOffsetsUnpacked(d, field, os) ==
  IF ~os.ok THEN os
  ELSE ReadOffsetsTable(d, field, os.pos, [j \in 1..Len(os.val) |-> os.val[j].v])

ReadOffsets(d, p, field, count) ==
  ReadOffsetsUnpacked(d, field, ReadUnpacked(d, p, field.index_marker, count + 1, <<>>))

\* for field in schema: if field.get('enc') == 'offset': ...
RECURSIVE ReadAllOffsets(_, _, _, _, _)
ReadAllOffsetsNext(d, schema, count, j, r) ==
  IF ~r.ok THEN r
  ELSE ReadAllOffsets(d, r.pos, [schema EXCEPT ![j] = r.val], count, j + 1)

ReadAllOffsets(d, p, schema, count, j) ==
  IF j > Len(schema) THEN Ok(schema, p)
  ELSE IF schema[j].enc # "offset" THEN ReadAllOffsets(d, p, schema, count, j + 1)
  ELSE ReadAllOffsetsNext(d, schema, count, j, ReadOffsets(d, p, schema[j], count))

\* columns[name]: the column stored last under that name.
ColumnOf(schema, cols, name) ==
  cols[CHOOSE j \in 1..Len(schema) :
         schema[j].name = name /\ \A k \in (j + 1)..Len(schema) : schema[k].name # name]

\* OrderedDict((f['name'], columns[f['name']][i]) for f in schema)
RECURSIVE RecordOfColumns(_, _, _, _, _)
RecordOfColumns(schema, cols, i, j, acc) ==
  IF j > Len(schema) THEN acc
  ELSE RecordOfColumns(schema, cols, i, j + 1,
                       DictSet(acc, schema[j].name, ColumnOf(schema, cols, schema[j].name)[i]))

\* The column-major branch of decode_soa.
\* all: the columns
DecodeColumnsBuilt(schema, count, all) ==
  IF ~all.ok THEN all
  ELSE DOk(VList([i \in 1..Max(count, 0) |->
                    VDict(RecordOfColumns(schema, all.val, i, 1, <<>>))]))

DecodeColumns(schema, payload, count) ==
  DecodeColumnsBuilt(schema, count,
           AllOk([j \in 1..Len(schema) |->
                    decode_column(schema[j],
                                  PySlice(payload, FieldOffset(schema, j) * count,
                                          (FieldOffset(schema, j) + schema[j].bytes) * count),
                                  count)]))

\* The row-major branch of decode_soa.
DecodeRows(schema, payload, count) ==
  DListOf(AllOk([i \in 1..Max(count, 0) |->
                   RecordAt(schema, payload, (i - 1) * SumBytes(schema), i - 1)]))

\* decode_soa(schema, count, layout)
\* decode_soa: the records decoded, the cursor (q) where the reads left it
decode_soa_records(q, recs) == IF ~recs.ok THEN Fail(recs.err, q, q) ELSE Ok(recs.val, q)

\* decode_soa: wo the schema with its offset tables and string buffers
decode_soa_offsets(count, layout, bytes, wo) ==
  IF ~wo.ok THEN wo
  ELSE IF layout = "column"
    THEN decode_soa_records(wo.pos, DecodeColumns(wo.val, bytes, count))
  ELSE decode_soa_records(wo.pos, DecodeRows(wo.val, bytes, count))

\* decode_soa: payload = self.read(record_bytes * count)
decode_soa_payload(d, schema, count, layout, payload) ==
  IF ~payload.ok THEN payload
  ELSE decode_soa_offsets(count, layout, payload.val,
                          ReadAllOffsets(d, payload.pos, schema, count, 1))

\* decode_soa(schema, count, layout)
decode_soa(d, p, schema, count, layout) ==
  decode_soa_payload(d, schema, count, layout, read(d, p, SumBytes(schema) * count))

\* while self.peek() == b'N': self.read(1)
RECURSIVE SkipNoops(_, _)
SkipNoops(d, p) == IF peek(d, p) = <<Ord.N>> THEN SkipNoops(d, p + 1) ELSE p

\* The keys of the dict read_soa returns: "_SOA_", "_dims_", "_records_".
KeySoa     == <<95, 83, 79, 65, 95>>
KeyDims    == <<95, 100, 105, 109, 115, 95>>
KeyRecords == <<95, 114, 101, 99, 111, 114, 100, 115, 95>>
LayoutStr(layout) ==
  IF layout = "row" THEN <<114, 111, 119>> ELSE <<99, 111, 108, 117, 109, 110>>

\* read_soa: the dict returned, recs what decode_soa returned
read_soa_result(layout, dims, recs) ==
  IF ~recs.ok THEN recs
  ELSE Ok(VDict(<< <<KeySoa, VStr(LayoutStr(layout))>>, <<KeyDims, dims>>,
                   <<KeyRecords, recs.val>> >>), recs.pos)

\* read_soa: decode_soa(schema, count, layout); kind tells what `count` is
\* after the header (an int, a float, ...), q is the cursor.
read_soa_records(d, layout, schema, q, kind, count, dims) ==
  IF kind \in {"err", "seq"} THEN Fail("TypeError", q, q)
  ELSE IF kind = "float" THEN Fail("FloatArith", q, q)
  ELSE read_soa_result(layout, dims, decode_soa(d, q, schema, count, layout))

\* read_soa: count = 1; for d in dims: count *= d
read_soa_shaped(d, layout, schema, sh, prod) ==
  read_soa_records(d, layout, schema, sh.pos, prod.k, prod.n, sh.val.dims)

\* read_soa: hd is the shape read after "#[" or the count read after '#'
read_soa_header(d, layout, schema, shaped, hd) ==
  IF ~hd.ok THEN hd
  ELSE IF shaped THEN read_soa_shaped(d, layout, schema, hd, TotalOf(hd.val.dims))
  ELSE read_soa_records(d, layout, schema, hd.pos, hd.val.t, hd.val.v, VList(<<hd.val>>))

\* read_soa: after the no-ops that follow the schema, the cursor at q
read_soa_counted(d, md, layout, schema, q) ==
  IF peek(d, q) # <<Ord.hash>> THEN Fail("ValueError", q, q)
  ELSE IF peek(d, q + 1) = <<Ord.lbr>>
    THEN read_soa_header(d, layout, schema, TRUE, ReadShape(d, md, q + 1))
  ELSE read_soa_header(d, layout, schema, FALSE, read_int(d, q + 1))

\* read_soa: sc what read_schema returned
read_soa_schema(d, md, layout, sc) ==
  IF ~sc.ok THEN sc ELSE read_soa_counted(d, md, layout, sc.val, SkipNoops(d, sc.pos))

\* read_soa(layout, brace_consumed=True), as read_array and read_object call it
read_soa(d, md, p, layout) == read_soa_schema(d, md, layout, read_schema(d, p, TRUE))

(***************************************************************************)
(* format_value                                                            *)
(*                                                                         *)
(* The text returned is kept by its parts: k names the branch that built   *)
(* it, lit a literal, s the characters taken from the value, n a count     *)
(* printed, items the parts nested in it.  The two layouts of a list that  *)
(* is printed in full (on one line, or one item per line) list the same    *)
(* items and are one kind, "list", here.                                   *)
(***************************************************************************)
Txt(k, lit, s, n, items) == [k |-> k, lit |-> lit, s |-> s, n |-> n, items |-> items]

\* sub in s
Contains(s, sub) ==
  \E j \in 0..(Len(s) - Len(sub)) : SubSeq(s, j + 1, j + Len(sub)) = sub

\* value.startswith("<") and "..." in value
IsPreviewStr(s) == Len(s) >= 1 /\ s[1] = Ord.lt /\ Contains(s, <<46, 46, 46>>)

\* value if len(value) <= max_str else value[:max_str//2] + "..." + value[-max_str//2:]
Displayed(s, max_str) ==
  IF Len(s) <= max_str THEN s
  ELSE PySlice(s, 0, max_str \div 2) \o <<46, 46, 46>>
       \o PySlice(s, (0 - max_str) \div 2, Len(s))

\* "_SOA_" in value
HasKey(pairs, key) == \E j \in 1..Len(pairs) : pairs[j][1] = key
\* value[key]
Lookup(pairs, key) == pairs[CHOOSE j \in 1..Len(pairs) : pairs[j][1] = key][2]

RECURSIVE format_value(_, _, _)
\* format_value: the SOA branch, records = value["_records_"]
format_value_soa(records, header, md, max_str) ==
  IF Len(records) > md
  \* the first 4 records and "...({len(records)-4} more)"
  THEN Txt("soa_preview", "", header, Len(records) - 4,
           [j \in 1..Len(PySlice(records, 0, 4)) |->
              format_value(records[j], md, max_str)])
  ELSE Txt("soa", "", header, 0,
           [j \in 1..Len(records) |-> format_value(records[j], md, max_str)])

format_value(value, md, max_str) ==
     IF value.t = "none" THEN Txt("null", "null", <<>>, 0, <<>>)
     ELSE IF value.t = "bool" THEN
       Txt("bool", IF value.v THEN "true" ELSE "false", <<>>, 0, <<>>)
     ELSE IF value.t = "str" THEN
       (IF IsPreviewStr(value.v) THEN Txt("verbatim", "", value.v, 0, <<>>)
        ELSE Txt("quoted", "", Displayed(value.v, max_str), 0, <<>>))
     ELSE IF value.t \in {"int", "float"} THEN Txt("number", "", ReprNum(value), 0, <<>>)
     ELSE IF value.t = "list" THEN
       (IF value.v = <<>> THEN Txt("empty_list", "[]", <<>>, 0, <<>>)
        \* f"<array[{len(value)}]: {value[:4]}...>"
        ELSE IF Len(value.v) > md
          THEN Txt("array_preview", "", <<>>, Len(value.v), PySlice(value.v, 0, 4))
        ELSE Txt("list", "", <<>>, 0,
                 [j \in 1..Len(value.v) |-> format_value(value.v[j], md, max_str)]))
     ELSE IF value.v = <<>> THEN Txt("empty_dict", "{}", <<>>, 0, <<>>)
     ELSE IF HasKey(value.v, KeySoa) THEN
       format_value_soa(Lookup(value.v, KeyRecords).v,
                        <<Lookup(value.v, KeySoa), Lookup(value.v, KeyDims)>>, md, max_str)
     \* f"<object[{len(value)}]>"
     ELSE IF Len(value.v) > md THEN Txt("object_preview", "", <<>>, Len(value.v), <<>>)
     ELSE Txt("object", "", <<>>, 0,
              [j \in 1..Len(value.v) |->
                 <<value.v[j][1], format_value(value.v[j][2], md, max_str)>>])

(***************************************************************************)
(* Inputs of the value decoder: encoded values                             *)
(*                                                                         *)
(* An encoded value is [b: its bytes, kind, hdr: the bytes before its      *)
(* payload or first element, elems: the elements of an array in storage    *)
(* order].  The sets below follow the format's grammar (spec sections 4.2  *)
(* and 6): a marker and its fixed-width payload, a length-prefixed string, *)
(* and the array and object forms with their optional '$' and '#' parts.   *)
(***************************************************************************)
MaxBudget == 3    \* max_data ranges over 0..MaxBudget
BigCount  == 9    \* an element count above the 8 values a preview decodes
MaxCut    == 2    \* bytes cut from the end of a buffer
MaxCalls  == 2    \* read_value calls made on one reader
MaxStr    == 200  \* max_str

Enc(b, kind, hdr, elems) == [b |-> b, kind |-> kind, hdr |-> hdr, elems |-> elems]

\* A payload of n bytes whose first byte is lead, second byte (if any) is 1.
Payload(lead, n) == [k \in 1..n |-> IF k = 1 THEN lead ELSE IF k = 2 THEN 1 ELSE 0]

\* Every fixed-width scalar: marker and payload.
FixedScalars ==
  { Enc(<<m>> \o Payload(lead, Markers[m].size), "fixed", 1, <<>>) :
      m \in FIXED_TYPES, lead \in {7, 255} }

\* The same behind a no-op marker.
NoopScalars ==
  { Enc(<<Ord.N, m>> \o Payload(7, Markers[m].size), "fixed", 2, <<>>) :
      m \in {Ord.U, Ord.I, Ord.d} }

SimpleScalars ==
  { Enc(<<m>>, "simple", 1, <<>>) : m \in {Ord.Z, Ord.T, Ord.F} }

\* S/H, an integer length and that many bytes.
Strings ==
  { Enc(<<Ord.S, Ord.U, 0>>, "string", 3, <<>>),
    Enc(<<Ord.S, Ord.U, 1, 97>>, "string", 3, <<>>),
    Enc(<<Ord.S, Ord.i, 2, 195, 169>>, "string", 3, <<>>),
    Enc(<<Ord.H, Ord.I, 3, 0, 49, 46, 53>>, "string", 4, <<>>),
    Enc(<<Ord.S, Ord.U, 5, 60, 46, 46, 46, 62>>, "string", 3, <<>>) }

\* The element counts the arrays are built with.
Counts == 0..(MaxBudget + 1) \cup {BigCount}

\* Element k of a typed array: its bytes and its value.
ElemBytes(m, k) ==
  IF m = Ord.T THEN (IF k % 2 = 1 THEN <<Ord.T>> ELSE <<Ord.F>>)
  ELSE IF m = Ord.C THEN <<Ord.rbr>>
  ELSE Payload(IF k % 2 = 1 THEN k ELSE 256 - k, Markers[m].size)

ElemValue(m, k) ==
  IF m = Ord.T THEN VBool(k % 2 = 1) ELSE Unpack(Markers[m].fmt, ElemBytes(m, k))

ElemsBytes(m, n) == Concat([k \in 1..n |-> ElemBytes(m, k)])
ElemsValues(m, n) == [k \in 1..n |-> ElemValue(m, k)]

\* [$<m>#<count><count elements>
TypedArrays ==
  { Enc(<<Ord.lbr, Ord.dollar, m, Ord.hash, Ord.U, n>> \o ElemsBytes(m, n),
        "typed", 6, ElemsValues(m, n)) :
      m \in {Ord.U, Ord.i, Ord.I, Ord.C, Ord.T}, n \in Counts }
  \cup
  { Enc(<<Ord.lbr, Ord.dollar, Ord.U, Ord.hash, Ord.I, n, 0>> \o ElemsBytes(Ord.U, n),
        "typed", 7, ElemsValues(Ord.U, n)) : n \in {2, BigCount} }

RECURSIVE Product(_)
Product(ds) == IF ds = <<>> THEN 1 ELSE Head(ds) * Product(Tail(ds))

\* The shapes the N-dimensional arrays are built with.
Shapes == {<<2>>, <<MaxBudget>>, <<2, 2>>, <<3, 3>>, <<0, 2>>, <<1, 1, 1>>}

\* The ways a shape is written after '#': "[d d ]", "[[d d ]]",
\* "[$U#<n>dd", "[[$U#<n>dd]" and "[#<n>d d ".
DimsList(ds)  == Concat([k \in 1..Len(ds) |-> <<Ord.U, ds[k]>>])
ShapeForms(ds) ==
  { <<Ord.lbr>> \o DimsList(ds) \o <<Ord.rbr>>,
    <<Ord.lbr, Ord.lbr>> \o DimsList(ds) \o <<Ord.rbr, Ord.rbr>>,
    <<Ord.lbr, Ord.dollar, Ord.U, Ord.hash, Ord.U, Len(ds)>> \o ds,
    <<Ord.lbr, Ord.lbr, Ord.dollar, Ord.U, Ord.hash, Ord.U, Len(ds)>> \o ds \o <<Ord.rbr>>,
    <<Ord.lbr, Ord.hash, Ord.U, Len(ds)>> \o DimsList(ds) }

\* [$<m>#<shape><product(shape) elements>
NdArraysOf(m, ds) ==
  { Enc(<<Ord.lbr, Ord.dollar, m, Ord.hash>> \o sf \o ElemsBytes(m, Product(ds)),
        "nd", 4 + Len(sf), ElemsValues(m, Product(ds))) : sf \in ShapeForms(ds) }
NdArrays == UNION { NdArraysOf(m, ds) : m \in {Ord.U, Ord.I}, ds \in Shapes }

\* Element k of an untyped array: a uint8, a null, a bool or a short string.
AnyBytes(k) ==
  IF k % 4 = 1 THEN <<Ord.U, k>> ELSE IF k % 4 = 2 THEN <<Ord.Z>>
  ELSE IF k % 4 = 3 THEN <<Ord.S, Ord.U, 1, 97>> ELSE <<Ord.F>>
AnyValue(k) ==
  IF k % 4 = 1 THEN VInt(k) ELSE IF k % 4 = 2 THEN VNone
  ELSE IF k % 4 = 3 THEN VStr(<<97>>) ELSE VBool(FALSE)

\* [<elements>]  and  [#<count><elements>
PlainArrays ==
  { Enc(<<Ord.lbr>> \o Concat([k \in 1..n |-> AnyBytes(k)]) \o <<Ord.rbr>>,
        "plain", 1, [k \in 1..n |-> AnyValue(k)]) : n \in Counts }
CountedArrays ==
  { Enc(<<Ord.lbr, Ord.hash, Ord.U, n>> \o Concat([k \in 1..n |-> AnyBytes(k)]),
        "counted", 4, [k \in 1..n |-> AnyValue(k)]) : n \in Counts }

\* An array whose elements are typed arrays.
NestedArrays ==
  { Enc(<<Ord.lbr>> \o a.b \o c.b \o <<Ord.rbr>>, "nested", 1, <<>>) :
      a \in {x \in TypedArrays : x.hdr = 6 /\ x.b[3] = Ord.I},
      c \in {x \in NdArrays : x.b[3] = Ord.U /\ Len(x.elems) = 4} }

\* {<key><value>...}, {#<count>...} and {$<m>#<count><key><payload>...
Key(c) == <<Ord.U, 1, c>>
Objects ==
  { Enc(<<Ord.lbrace, Ord.rbrace>>, "object", 1, <<>>),
    Enc(<<Ord.lbrace>> \o Key(97) \o <<Ord.Z>> \o Key(98) \o <<Ord.U, 5>>
          \o Key(97) \o <<Ord.T>> \o <<Ord.rbrace>>, "object", 1, <<>>),
    Enc(<<Ord.lbrace, Ord.hash, Ord.U, 2>> \o Key(97) \o <<Ord.S, Ord.U, 1, 98>>
          \o Key(98) \o <<Ord.lbr, Ord.rbr>>, "object", 4, <<>>),
    Enc(<<Ord.lbrace, Ord.dollar, Ord.I, Ord.hash, Ord.U, 2>> \o Key(97) \o <<5, 0>>
          \o Key(98) \o <<6, 1>>, "object", 6, <<>>) }

\* [${<schema>}#<count><records> and {${<schema>}#<count><records><offsets><buffer>
SoaBlocks ==
  { Enc(<<Ord.lbr, Ord.dollar, Ord.lbrace>> \o Key(97) \o <<Ord.U>> \o Key(98) \o <<Ord.T>>
          \o <<Ord.rbrace, Ord.hash, Ord.U, 2, 5, Ord.T, 6, Ord.F>>, "soa", 15, <<>>),
    Enc(<<Ord.lbrace, Ord.dollar, Ord.lbrace>> \o Key(97) \o <<Ord.lbr, Ord.dollar, Ord.U, Ord.rbr>>
          \o <<Ord.rbrace, Ord.hash, Ord.U, 2, 1, 0, 0, 1, 3, 97, 98, 99>>, "soa", 14, <<>>) }

Encodings ==
  FixedScalars \cup NoopScalars \cup SimpleScalars \cup Strings \cup TypedArrays
  \cup NdArrays \cup PlainArrays \cup CountedArrays \cup NestedArrays \cup Objects
  \cup SoaBlocks

\* The values that follow a first value in a buffer of two.
Followers ==
  SimpleScalars \cup {e \in FixedScalars : e.b[1] \in {Ord.U, Ord.I} /\ e.b[2] = 7}
  \cup {e \in Strings : Len(e.b) = 5}
  \cup {e \in TypedArrays : e.b[3] = Ord.U /\ Len(e.elems) \in {2, BigCount}}
  \cup {e \in PlainArrays : Len(e.elems) = 2}
  \cup {e \in Objects : e.hdr = 6}

NoValue == Enc(<<>>, "none", 0, <<>>)

\* A buffer: a first value, the value after it (or none), and the number of
\* bytes cut from the end of the last one.
Inputs ==
  { [first |-> e1, second |-> e2, cut |-> 0] : e1 \in Encodings, e2 \in Followers }
  \cup
  { [first |-> e1, second |-> NoValue, cut |-> c] :
      e1 \in Encodings, c \in 0..MaxCut }
  \cup
  { [first |-> e1, second |-> e2, cut |-> c] :
      e1 \in SimpleScalars \cup Strings, e2 \in FixedScalars \cup NoopScalars,
      c \in 1..MaxCut }

BufferOf(i) ==
  SubSeq(i.first.b \o i.second.b, 1, Max(Len(i.first.b) + Len(i.second.b) - i.cut, 0))

(***************************************************************************)
(* The value decoder as a state machine: a reader over one buffer, on      *)
(* which read_value is called, and format_value applied to what it returns *)
(* (main).                                                                 *)
(***************************************************************************)
NoText == Txt("none", "", <<>>, 0, <<>>)

\* No SOA decode has been made.
NotRun == Fail("none", 0, 0)
NoneDecoded == [schema |-> NotRun, row |-> NotRun, column |-> NotRun]

Init ==
  /\ inp \in Inputs
  /\ data = BufferOf(inp)
  /\ pos = 0
  /\ max_data \in 0..MaxBudget
  /\ out = <<>>
  /\ err = ""
  /\ errAt = 0
  /\ text = NoText
  /\ decoded = NoneDecoded
  /\ stack = <<>>

\* value = reader.read_value()
ReadValue ==
  /\ err = ""
  /\ Len(out) < MaxCalls
  /\ LET Returned(r) ==
           /\ pos' = r.pos
           /\ out' = IF r.ok THEN Append(out, r.val) ELSE out
           /\ err' = r.err
           /\ errAt' = r.at
     IN Returned(read_value(data, max_data, pos))
  /\ text' = NoText
  /\ UNCHANGED <<data, max_data, inp, decoded, stack>>

\* format_value(value, max_data, max_str)
FormatValue ==
  /\ err = ""
  /\ out # <<>>
  /\ text = NoText
  /\ text' = format_value(out[Len(out)], max_data, MaxStr)
  /\ UNCHANGED <<data, pos, max_data, out, err, errAt, inp, decoded, stack>>

Next == ReadValue \/ FormatValue

Spec == Init /\ [][Next]_vars

(***************************************************************************)
(* Properties of the value decoder (Spec)                                  *)
(***************************************************************************)
\* The first read_value call raised / returned (out[1] is what it returned).
FirstFailed   == out = <<>> /\ err # ""
FirstReturned == Len(out) >= 1
\* The reader is between the first call's return and a second call.
AfterFirst    == Len(out) = 1 /\ err = ""

\* The buffer holds two complete values, one right after the other.
TwoValues == inp.cut = 0 /\ inp.second.kind # "none"

\* C1 (cursor conservation): when a buffer holds two complete values back to
\* back, the first read_value succeeds and leaves the cursor at the end of the
\* first value's span, and the second read_value returns what the second
\* value decodes to on its own and leaves the cursor at the end of the buffer.
C1_CursorConservation ==
  TwoValues =>
    /\ ~FirstFailed
    /\ AfterFirst => pos = Len(inp.first.b)
    /\ Len(out) = 1 => err = ""
    /\ Len(out) >= 2 =>
         /\ read_value(inp.second.b, max_data, 0).ok
         /\ out[2] = read_value(inp.second.b, max_data, 0).val
         /\ err = "" => pos = Len(data)

\* The element marker of an encoded typed array, and its width in the table.
ElemType(e) == e.b[3]
ElemWidth(e) == Markers[ElemType(e)].size

\* A typed array (count + type or shape + type) with a header that is all
\* there, elements of width >= 1, and fewer payload bytes than it declares.
DeclaredBytes  == Len(inp.first.elems) * ElemWidth(inp.first)
AvailableBytes == Len(data) - inp.first.hdr
ShortArray ==
  /\ inp.first.kind \in {"typed", "nd"} /\ inp.second.kind = "none"
  /\ ElemWidth(inp.first) >= 1
  /\ AvailableBytes >= 0
  /\ DeclaredBytes > AvailableBytes

\* C4 (truncation on short buffer): a typed array that declares more payload
\* bytes than the buffer has left decodes to a preview reporting the available
\* and the declared byte counts, and never ends in a fatal error.
C4_TruncationOnShortBuffer ==
  ShortArray =>
    /\ ~FirstFailed
    /\ FirstReturned =>
         /\ out[1].t = "str"
         /\ Contains(out[1].v, Dec(DeclaredBytes))
         /\ Contains(out[1].v, Dec(AvailableBytes))

\* An array whose bytes are all present.
WholeArray ==
  /\ inp.cut = 0 /\ inp.second.kind = "none"
  /\ inp.first.kind \in {"typed", "nd", "plain", "counted"}

\* C5 (truncation boundary): for every budget max_data, an array of exactly
\* max_data elements with all its bytes present decodes to the full list and
\* is displayed in full; an array of max_data + 1 elements comes out as a
\* preview (from the decoder when its type is numeric, else from
\* format_value) and not as the full list.
C5_TruncationBoundary ==
  WholeArray =>
    /\ Len(inp.first.elems) = max_data =>
         /\ ~FirstFailed
         /\ FirstReturned => out[1] = VList(inp.first.elems)
         /\ (AfterFirst /\ text # NoText) =>
              (text.k \in {"list", "empty_list"} /\ Len(text.items) = max_data)
    /\ Len(inp.first.elems) = max_data + 1 =>
         /\ ~FirstFailed
         /\ (FirstReturned /\ inp.first.kind \in {"typed", "nd"}
               /\ ElemWidth(inp.first) >= 1)
              => (out[1].t = "str" /\ IsPreviewStr(out[1].v))
         /\ (AfterFirst /\ text # NoText) => text.k \in {"verbatim", "array_preview"}

\* The last value of the buffer is a fixed-width scalar cut inside its payload.
LastValue == IF inp.second.kind = "none" THEN inp.first ELSE inp.second
CutScalar ==
  /\ LastValue.kind = "fixed"
  /\ inp.cut >= 1 /\ inp.cut <= Markers[LastValue.b[LastValue.hdr]].size

\* The cursor where the read of the payload begins.
PayloadStart ==
  IF inp.second.kind = "none" THEN inp.first.hdr ELSE Len(inp.first.b) + inp.second.hdr

\* C7 (error locality): when the buffer is cut inside the payload of a
\* fixed-width scalar, read_value fails with an EOF error whose offset is the
\* cursor where the failing read began, and the cursor stays there.
C7_ErrorLocality ==
  CutScalar =>
    \/ err = "" /\ Len(out) = 0
    \/ err = "" /\ Len(out) = 1 /\ inp.second.kind # "none" /\ pos = Len(inp.first.b)
    \/ /\ err = "EOFError" /\ errAt = PayloadStart /\ pos = PayloadStart
       /\ Len(out) = (IF inp.second.kind = "none" THEN 0 ELSE 1)

\* A scalar behind a no-op marker, after a first value, cut in its payload.
C7_Witness ==
  /\ CutScalar /\ inp.second.kind # "none" /\ inp.second.hdr = 2
  /\ err = "EOFError" /\ errAt = PayloadStart /\ errAt > 2

(***************************************************************************)
(* Inputs of the SOA decoder: encoded SOA blocks                           *)
(*                                                                         *)
(* A block is [fields: the kind of each schema field, dup: all fields      *)
(* carry one name, count, strs: the string values of the records, idx: how *)
(* the index cells of dictionary and offset strings are written, closed:   *)
(* the schema has its '}'].  Every string field of a record encodes the    *)
(* same string, StrOf(strs, i) for record i (spec section 4.3).            *)
(***************************************************************************)
MaxFields  == 2   \* fields of a schema
MaxRecords == 2   \* records of a block

\* "a" "bc" / "é" "a" / "" "bc" in UTF-8
StrSets ==
  { << <<97>>, <<98, 99>> >>, << <<195, 169>>, <<97>> >>, << <<>>, <<98, 99>> >> }
StrOf(ss, i) == ss[(i % Len(ss)) + 1]
\* The width of a fixed-width string field: the longest value's bytes.
StrWidth(ss) == Max(Len(ss[1]), Len(ss[2]))

FieldKinds ==
  {"uint8", "int16", "bool", "null", "str_fixed", "str_dict", "str_offset",
   "str_offset_signed", "array", "struct", "struct_offset"}
\* A field type the schema grammar does not have, alone and inside "[...]".
DefectKinds == {"unsupported", "array_unsupported"}
StringKinds == {"str_fixed", "str_dict", "str_offset", "str_offset_signed"}
IndexKinds  == {"str_dict", "str_offset", "str_offset_signed"}
OffsetKinds == {"str_offset", "str_offset_signed"}

\* The dictionary entries as read_string reads them: a length and the bytes.
DictBytes(ss) == Concat([k \in 1..Len(ss) |-> <<Ord.U, Len(ss[k])>> \o ss[k]])

\* What the schema holds after a field's name.
TypeBytes(kind, ss) ==
  IF kind = "uint8" THEN <<Ord.U>>
  ELSE IF kind = "int16" THEN <<Ord.I>>
  ELSE IF kind = "bool" THEN <<Ord.T>>
  ELSE IF kind = "null" THEN <<Ord.Z>>
  ELSE IF kind = "str_fixed" THEN <<Ord.S, Ord.U, StrWidth(ss)>>
  ELSE IF kind = "str_dict"
    THEN <<Ord.lbr, Ord.dollar, Ord.S, Ord.hash, Ord.U, Len(ss)>> \o DictBytes(ss)
  ELSE IF kind = "str_offset" THEN <<Ord.lbr, Ord.dollar, Ord.U, Ord.rbr>>
  ELSE IF kind = "str_offset_signed" THEN <<Ord.lbr, Ord.dollar, Ord.i, Ord.rbr>>
  ELSE IF kind = "array" THEN <<Ord.lbr, Ord.U, Ord.T, Ord.rbr>>
  ELSE IF kind = "array_unsupported" THEN <<Ord.lbr, Ord.U, Ord.S, Ord.T, Ord.rbr>>
  ELSE IF kind = "struct"
    THEN <<Ord.lbrace>> \o Key(120) \o <<Ord.I>> \o Key(121) \o <<Ord.T, Ord.rbrace>>
  ELSE IF kind = "struct_offset"
    THEN <<Ord.lbrace>> \o Key(120) \o <<Ord.lbr, Ord.dollar, Ord.U, Ord.rbr, Ord.rbrace>>
  ELSE <<Ord.N>>

BoolByte(b) == IF b THEN Ord.T ELSE Ord.F
PadNul(bs, w) == bs \o [k \in 1..(w - Len(bs)) |-> Ord.nul]
\* An index cell: the right index, one past the table, or the byte 0xFF.
IndexByte(idx, good, high) ==
  IF idx = "good" THEN good ELSE IF idx = "high" THEN high ELSE 255

\* The bytes of field j (of that kind) in record i (0-based).
Cell(kind, ss, idx, count, i, j) ==
  IF kind = "uint8" THEN <<10 * j + i>>
  ELSE IF kind = "int16" THEN <<i + 1, j>>
  ELSE IF kind = "bool" THEN <<BoolByte((i + j) % 2 = 0)>>
  ELSE IF kind = "null" THEN <<>>
  ELSE IF kind = "str_fixed" THEN PadNul(StrOf(ss, i), StrWidth(ss))
  ELSE IF kind = "str_dict" THEN <<IndexByte(idx, i % Len(ss), Len(ss))>>
  ELSE IF kind \in OffsetKinds \cup {"struct_offset"} THEN <<IndexByte(idx, i, count)>>
  ELSE IF kind \in {"array", "array_unsupported"} THEN <<j + i, BoolByte(i % 2 = 1)>>
  ELSE IF kind = "struct" THEN <<i + 1, j, BoolByte(i % 2 = 0)>>
  ELSE <<7>>

\* The bytes of the strings of records 0..k-1.
RECURSIVE StrBytesBefore(_, _)
StrBytesBefore(ss, k) ==
  IF k <= 0 THEN 0 ELSE StrBytesBefore(ss, k - 1) + Len(StrOf(ss, k - 1))

\* The count+1 offsets and the string buffer of an offset string field.
OffsetTail(ss, count) ==
  [k \in 1..(count + 1) |-> StrBytesBefore(ss, k - 1)]
  \o Concat([i \in 1..count |-> StrOf(ss, i - 1)])

FieldName(in, j) == IF in.dup THEN 97 ELSE 96 + j

SchemaBytes(in) ==
  Concat([j \in 1..Len(in.fields) |->
            Key(FieldName(in, j)) \o TypeBytes(in.fields[j], in.strs)])

RecordBytes(in, i) ==
  Concat([j \in 1..Len(in.fields) |->
            Cell(in.fields[j], in.strs, in.idx, in.count, i, j)])
ColumnBytes(in, j) ==
  Concat([i \in 1..in.count |->
            Cell(in.fields[j], in.strs, in.idx, in.count, i - 1, j)])

RowPayload(in)    == Concat([i \in 1..in.count |-> RecordBytes(in, i - 1)])
ColumnPayload(in) == Concat([j \in 1..Len(in.fields) |-> ColumnBytes(in, j)])

Tails(in) ==
  Concat([j \in 1..Len(in.fields) |->
            IF in.fields[j] \in OffsetKinds THEN OffsetTail(in.strs, in.count)
            ELSE <<>>])

\* [${<schema>}#<count><row-major payload><tails> and
\* {${<schema>}#<count><column-major payload><tails>
SoaBuffer(in, layout) ==
  <<IF layout = "row" THEN Ord.lbr ELSE Ord.lbrace, Ord.dollar, Ord.lbrace>>
  \o SchemaBytes(in) \o (IF in.closed THEN <<Ord.rbrace>> ELSE <<>>)
  \o <<Ord.hash, Ord.U, in.count>>
  \o (IF layout = "row" THEN RowPayload(in) ELSE ColumnPayload(in))
  \o Tails(in)

FieldSeqs(kinds) == UNION { [1..n -> kinds] : n \in 1..MaxFields }
HasKind(fs, kinds) == \E j \in 1..Len(fs) : fs[j] \in kinds

SoaInput(fs, dup, n, ss, idx, closed) ==
  [fields |-> fs, dup |-> dup, count |-> n, strs |-> ss, idx |-> idx, closed |-> closed]

\* Well-formed blocks.
WellFormedInputs ==
  { SoaInput(fs, FALSE, n, ss, "good", TRUE) :
      fs \in FieldSeqs(FieldKinds), n \in 0..MaxRecords, ss \in StrSets }
  \cup
  { SoaInput(fs, TRUE, n, ss, "good", TRUE) :
      fs \in {f \in FieldSeqs(FieldKinds) : Len(f) >= 2}, n \in 1..MaxRecords,
      ss \in StrSets }

\* Blocks whose index cells are out of range.
BadIndexInputs ==
  { SoaInput(fs, FALSE, n, ss, idx, TRUE) :
      fs \in {f \in FieldSeqs(FieldKinds) : HasKind(f, IndexKinds)},
      n \in 1..MaxRecords, ss \in StrSets, idx \in {"high", "negative"} }

\* Blocks whose schema is malformed.
MalformedInputs ==
  { SoaInput(fs, FALSE, 1, ss, "good", cl) :
      fs \in {f \in FieldSeqs(FieldKinds \cup DefectKinds) : HasKind(f, DefectKinds)},
      ss \in StrSets, cl \in BOOLEAN }
  \cup
  { SoaInput(fs, FALSE, 1, ss, "good", FALSE) :
      fs \in FieldSeqs(FieldKinds), ss \in StrSets }

SoaInputs == WellFormedInputs \cup BadIndexInputs \cup MalformedInputs

(***************************************************************************)
(* The SOA decoder as a state machine: the schema of a block is read, then *)
(* the block is decoded from its row-major and from its column-major       *)
(* serialization, each by a reader of its own.                             *)
(***************************************************************************)
InitSoa ==
  /\ inp \in SoaInputs
  /\ data = <<>>
  /\ pos = 0
  /\ max_data = MaxBudget
  /\ out = <<>>
  /\ err = ""
  /\ errAt = 0
  /\ text = NoText
  /\ decoded = NoneDecoded
  /\ stack = <<>>

\* A reader has returned r (a value or an exception) on the buffer d.
Decoded(what, d, r) ==
  /\ data' = d
  /\ pos' = r.pos
  /\ out' = IF r.ok /\ what # "schema" THEN <<r.val>> ELSE <<>>
  /\ err' = r.err
  /\ errAt' = r.at
  /\ decoded' = [decoded EXCEPT ![what] = r]
  /\ UNCHANGED <<max_data, text, inp, stack>>

\* read_schema(brace_consumed=True), the cursor after "[${"
ReadSchema ==
  /\ decoded.schema = NotRun
  /\ Decoded("schema", SoaBuffer(inp, "row"), read_schema(SoaBuffer(inp, "row"), 3, TRUE))

\* read_value() on the row-major serialization
DecodeRowMajor ==
  /\ decoded.schema # NotRun
  /\ decoded.row = NotRun
  /\ Decoded("row", SoaBuffer(inp, "row"), read_value(SoaBuffer(inp, "row"), max_data, 0))

\* read_value() on the column-major serialization
DecodeColumnMajor ==
  /\ decoded.row # NotRun
  /\ decoded.column = NotRun
  /\ Decoded("column", SoaBuffer(inp, "column"),
             read_value(SoaBuffer(inp, "column"), max_data, 0))

NextSoa == ReadSchema \/ DecodeRowMajor \/ DecodeColumnMajor

SpecSoa == InitSoa /\ [][NextSoa]_vars

(***************************************************************************)
(* Properties of the SOA decoder (SpecSoa)                                 *)
(***************************************************************************)
WellFormed ==
  inp.idx = "good" /\ inp.closed /\ ~HasKind(inp.fields, DefectKinds)

\* value["_records_"] of what a decode returned
RecordsOf(r) == Lookup(r.val.v, KeyRecords).v

\* The keys of a record, in order.
KeysOf(rec) == [k \in 1..Len(rec.v) |-> rec.v[k][1]]
SchemaKeys ==
  IF inp.dup THEN << <<97>> >> ELSE [j \in 1..Len(inp.fields) |-> <<96 + j>>]

BothDecoded == decoded.row # NotRun /\ decoded.column # NotRun

\* Both decodes returned the same count records, equal field by field and
\* record by record, with the schema's fields in order, each at the end of its
\* buffer.
SameRecords ==
  /\ RecordsOf(decoded.row) = RecordsOf(decoded.column)
  /\ Len(RecordsOf(decoded.column)) = inp.count
  /\ \A i \in 1..inp.count : KeysOf(RecordsOf(decoded.column)[i]) = SchemaKeys
  /\ decoded.row.pos = Len(SoaBuffer(inp, "row"))
  /\ decoded.column.pos = Len(SoaBuffer(inp, "column"))

\* C2 (layout equivalence): for every schema, record count and records, the
\* decode of the row-major and the decode of the column-major serialization
\* both return, with identical record lists: equal field by field and record
\* by record, in the schema's field order.
C2_LayoutEquivalence ==
  (WellFormed /\ BothDecoded) =>
    /\ decoded.row.ok /\ decoded.column.ok
    /\ SameRecords

\* What the two layouts do share: both decodes end alike.  They return the
\* same records, or, for a nested struct that holds an offset string and at
\* least one record, raise the same exception.
LayoutsAgree ==
  (WellFormed /\ BothDecoded) =>
    IF decoded.row.ok THEN decoded.column.ok /\ SameRecords
    ELSE /\ ~decoded.column.ok
         /\ decoded.row.err = decoded.column.err
         /\ HasKind(inp.fields, {"struct_offset"}) /\ inp.count >= 1

\* record[i][name of field j]
FieldValue(r, i, j) == Lookup(RecordsOf(r)[i].v, <<96 + j>>)

\* In every record, the string fields (all encodings of the same string)
\* hold the same string.
SameStrings(r) ==
  \A i \in 1..inp.count :
    \A j1, j2 \in 1..Len(inp.fields) :
      (inp.fields[j1] \in StringKinds /\ inp.fields[j2] \in StringKinds)
        => FieldValue(r, i, j1) = FieldValue(r, i, j2)

\* C3 (string-encoding equivalence): the same string values encoded as
\* fixed-width, dictionary and offset strings decode to identical strings in
\* every record.
C3_StringEncodingEquivalence ==
  (WellFormed /\ ~inp.dup) =>
    /\ (decoded.row # NotRun /\ decoded.row.ok) => SameStrings(decoded.row)
    /\ (decoded.column # NotRun /\ decoded.column.ok) => SameStrings(decoded.column)

\* Every index cell of the block's dictionary and offset strings is out of
\* range.
BadIndex == inp.idx # "good" /\ inp.count >= 1 /\ HasKind(inp.fields, IndexKinds)

\* C6 (index out of range is fatal): a dictionary index that is no position
\* of the dictionary, or an offset index i with offsets[i] or offsets[i+1]
\* outside the count+1 offsets, makes the decode fail; no record comes back.
C6_IndexOutOfRangeFatal ==
  BadIndex =>
    /\ decoded.row # NotRun => ~decoded.row.ok
    /\ decoded.column # NotRun => ~decoded.column.ok

\* C8 (malformed schema is fatal): a schema with a marker that is not
\* supported where it stands (also inside a bracketed fixed array), or without
\* its closing '}', makes read_schema fail; no schema comes back.
C8_MalformedSchemaFatal ==
  ~(inp.closed /\ ~HasKind(inp.fields, DefectKinds)) =>
    (decoded.schema # NotRun => ~decoded.schema.ok)

(***************************************************************************)
(* The value decoder step by step                                          *)
(*                                                                         *)
(* One read_value call on a buffer, taken one statement at a time: `stack` *)
(* holds the calls and loops in progress, innermost last, each a frame     *)
(* [op: where the call stands, m: the marker being unpacked, t: elem_type  *)
(* (<<>> for None), n: a length or the iterations left, next: what the     *)
(* integer being read is for].  Values are not kept, only what steers the  *)
(* cursor.  The statements that read a typed payload, an N-dimensional     *)
(* array or an SOA block are one step each, taken by the operators above.  *)
(* On the buffers built here the headers of those blocks are well formed,  *)
(* so these steps read forward and end.                                    *)
(***************************************************************************)
MaxTokens == 3   \* tokens a buffer is built from
MaxDepth  == 4   \* calls in progress before the interpreter's recursion limit

\* The pieces the buffers are built from: markers, scalars, strings and
\* integers with positive and negative values, keys, '$'/'#' headers.
Tokens ==
  { <<Ord.Z>>, <<Ord.N>>, <<Ord.lbr>>, <<Ord.rbr>>, <<Ord.lbrace>>, <<Ord.rbrace>>,
    <<Ord.U, 2>>, <<Ord.C, 97>>, <<Ord.U, 1, 97>>,
    <<Ord.S, Ord.i, 1, 97>>, <<Ord.S, Ord.i, 253>>,
    <<Ord.i, 254>>, <<Ord.i, 252>>,
    <<Ord.hash, Ord.U, 2>>, <<Ord.dollar, Ord.U>>,
    <<Ord.dollar, Ord.U, Ord.hash, Ord.lbr, Ord.U, 1, Ord.rbr, 7>>,
    <<Ord.dollar, Ord.lbrace, Ord.U, 1, 97, Ord.U, Ord.rbrace, Ord.hash, Ord.U, 1, 7>> }

StepInputs == UNION { [1..n -> Tokens] : n \in 1..MaxTokens }

Frame(op, m, t, n, next) == [op |-> op, m |-> m, t |-> t, n |-> n, next |-> next]
ValueFrame == Frame("read_value", <<>>, <<>>, 0, "")

Top     == stack[Len(stack)]
Rest    == SubSeq(stack, 1, Len(stack) - 1)
Running == err = "" /\ stack # <<>>

InitStep ==
  /\ inp \in StepInputs
  /\ data = Concat(inp)
  /\ pos = 0
  /\ max_data = MaxBudget
  /\ out = <<>>
  /\ err = ""
  /\ errAt = 0
  /\ text = NoText
  /\ decoded = NoneDecoded
  /\ stack = <<ValueFrame>>

\* The cursor moves to p and the calls in progress become st.
StepTo(p, st) ==
  /\ pos' = p
  /\ stack' = st
  /\ UNCHANGED <<data, max_data, out, err, errAt, text, inp, decoded>>

\* The exception r is raised: nothing catches it.
StepRaise(r) ==
  /\ pos' = r.pos
  /\ err' = r.err
  /\ errAt' = r.at
  /\ UNCHANGED <<data, max_data, out, text, inp, decoded, stack>>

\* The innermost call returns after the statement with outcome r.
StepReturn(r) == IF r.ok THEN StepTo(r.pos, Rest) ELSE StepRaise(r)

\* self.read_value() is called with the calls st in progress.
StepCall(st) ==
  IF Len(st) >= MaxDepth THEN StepRaise(Fail("RecursionError", pos, pos))
  ELSE StepTo(pos, Append(st, ValueFrame))

\* read_value: marker = self.read(1) (mk) and the dispatch on it.  The call
\* `return self.read_value()` after 'N' takes the caller's place.
StepValueDispatch(mk) ==
  IF ~mk.ok THEN StepRaise(mk)
  ELSE IF mk.val = <<>> THEN StepRaise(Fail("IndexError", mk.pos, mk.pos))
  ELSE IF IsByte(mk.val, {Ord.Z, Ord.T, Ord.F}) THEN StepTo(mk.pos, Rest)
  ELSE IF mk.val = <<Ord.N>> THEN StepTo(mk.pos, stack)
  ELSE IF IsByte(mk.val, NUM_TYPES)
    THEN StepTo(mk.pos, Append(Rest, Frame("unpack", mk.val, <<>>, 0, "")))
  ELSE IF IsByte(mk.val, {Ord.C, Ord.B})
    THEN StepTo(mk.pos, Append(Rest, Frame("byte", mk.val, <<>>, 0, "")))
  ELSE IF IsByte(mk.val, {Ord.S, Ord.H})
    THEN StepTo(mk.pos, Append(Rest, Frame("read_int", <<>>, <<>>, 0, "read_string")))
  ELSE IF mk.val = <<Ord.lbr>>
    THEN StepTo(mk.pos, Append(Rest, Frame("read_array", <<>>, <<>>, 0, "")))
  ELSE IF mk.val = <<Ord.lbrace>>
    THEN StepTo(mk.pos, Append(Rest, Frame("read_object", <<>>, <<>>, 0, "")))
  ELSE StepRaise(Fail("ValueError", mk.pos - 1, mk.pos))

StepReadValue ==
  /\ Running /\ Top.op = "read_value"
  /\ StepValueDispatch(read(data, pos, 1))

\* struct.unpack(fmt, self.read(size))[0]
StepUnpack ==
  /\ Running /\ Top.op = "unpack"
  /\ StepReturn(UnpackOf(Top.m, read(data, pos, SizeOf(Top.m))))

\* chr(self.read(1)[0]) and self.read(1)[0]
StepByte ==
  /\ Running /\ Top.op = "byte"
  /\ StepReturn(read_value_byte(Top.m, read(data, pos, 1)))

\* read_int: marker = self.read(1) (mk); size, fmt = self.markers[marker]
StepIntMarker(mk) ==
  IF ~mk.ok THEN StepRaise(mk)
  ELSE IF ~InMarkers(mk.val) THEN StepRaise(Fail("KeyError", mk.pos, mk.pos))
  ELSE StepTo(mk.pos, Append(Rest, [Top EXCEPT !.op = "read_int_payload", !.m = mk.val]))

StepReadIntMarker ==
  /\ Running /\ Top.op = "read_int"
  /\ StepIntMarker(read(data, pos, 1))

\* read_int returns v; what its caller does with the integer next.
StepIntValue(v) ==
  IF ~v.ok THEN StepRaise(v)
  ELSE IF Top.next = "read_string" THEN
    \* self.read(length)... if length else ""
    (IF v.val.t = "float" THEN
       (IF FloatIsZero(v.val) THEN StepTo(v.pos, Rest)
        ELSE StepRaise(Fail("FloatArith", v.pos, v.pos)))
     ELSE IF v.val.v = 0 THEN StepTo(v.pos, Rest)
     ELSE StepTo(v.pos, Append(Rest, Frame("read", <<>>, <<>>, v.val.v, ""))))
  ELSE IF Top.next = "key" THEN
    \* key = self.read(self.read_int())
    (IF v.val.t = "float" THEN StepRaise(Fail("FloatArith", v.pos, v.pos))
     ELSE StepTo(v.pos, Append(Rest, Frame("read", <<>>, <<>>, v.val.v, ""))))
  ELSE IF Top.next = "array_count" THEN
    \* read_typed_values(elem_type, count) or [read_value() for _ in range(count)]
    (IF Top.t # <<>>
       THEN StepReturn(read_typed_values(data, max_data, v.pos, Top.t, v.val))
     ELSE IF v.val.t = "float" THEN StepRaise(Fail("TypeError", v.pos, v.pos))
     ELSE StepTo(v.pos, Append(Rest, Frame("repeat", <<>>, <<>>, v.val.v, ""))))
  \* the count of read_object
  ELSE IF v.val.t = "float" THEN StepRaise(Fail("FloatArith", v.pos, v.pos))
  ELSE StepTo(v.pos, Append(Rest, Frame("object_loop", <<>>, Top.t, v.val.v, "counted")))

\* read_int: struct.unpack(fmt, self.read(size))[0]
StepReadIntPayload ==
  /\ Running /\ Top.op = "read_int_payload"
  /\ StepIntValue(UnpackOf(Top.m, read(data, pos, SizeOf(Top.m))))

\* self.read(n), n a length that read_int returned
StepRead ==
  /\ Running /\ Top.op = "read"
  /\ StepReturn(read(data, pos, Top.n))

\* read_array after '#' (h is its read): the shape and the N-dimensional
\* array, or the count to read.
StepArrayHash(elem_type, h) ==
  IF ~h.ok THEN StepRaise(h)
  ELSE IF peek(data, h.pos) = <<Ord.lbr>>
    THEN StepTo(h.pos, Append(Rest, Frame("read_nd_array", <<>>, elem_type, 0, "")))
  ELSE StepTo(h.pos, Append(Rest, Frame("read_int", <<>>, elem_type, 0, "array_count")))

\* read_array after the optional '$<type>' (tp)
StepArrayTyped(tp) ==
  IF ~tp.ok THEN StepRaise(tp)
  ELSE IF tp.val = <<Ord.lbrace>>
    THEN StepTo(tp.pos, Append(Rest, Frame("read_soa", <<>>, <<>>, 0, "row")))
  ELSE IF peek(data, tp.pos) = <<Ord.hash>>
    THEN StepArrayHash(tp.val, read(data, tp.pos, 1))
  ELSE StepTo(tp.pos, Append(Rest, Frame("until", <<>>, <<>>, 0, "")))

StepReadArray ==
  /\ Running /\ Top.op = "read_array"
  /\ StepArrayTyped(TypePrefix(data, pos, TRUE))

\* while self.peek() != b']': result.append(self.read_value()); self.read(1)
StepUntil ==
  /\ Running /\ Top.op = "until"
  /\ IF peek(data, pos) = <<Ord.rbr>> THEN StepReturn(read(data, pos, 1))
     ELSE StepCall(stack)

\* [self.read_value() for _ in range(count)]
StepRepeat ==
  /\ Running /\ Top.op = "repeat"
  /\ IF Top.n <= 0 THEN StepTo(pos, Rest)
     ELSE StepCall(Append(Rest, [Top EXCEPT !.n = @ - 1]))

\* read_object after the optional '$<type>' (tp)
StepObjectTyped(tp) ==
  IF ~tp.ok THEN StepRaise(tp)
  ELSE IF tp.val = <<Ord.lbrace>>
    THEN StepTo(tp.pos, Append(Rest, Frame("read_soa", <<>>, <<>>, 0, "column")))
  ELSE IF peek(data, tp.pos) = <<Ord.hash>>
    THEN StepTo(tp.pos + 1, Append(Rest, Frame("read_int", <<>>, tp.val, 0, "object_count")))
  ELSE StepTo(tp.pos, Append(Rest, Frame("object_loop", <<>>, tp.val, 0, "open")))

StepReadObject ==
  /\ Running /\ Top.op = "read_object"
  /\ StepObjectTyped(TypePrefix(data, pos, TRUE))

\* while (count is None and self.peek() != b'}') or (count is not None and
\* i < count): the key's length is read next; after the loop, self.read(1) if
\* count is None.  n is count - i.
StepObjectLoop ==
  /\ Running /\ Top.op = "object_loop"
  /\ IF Top.next = "open" /\ peek(data, pos) # <<Ord.rbrace>>
       THEN StepTo(pos, Append(Append(Rest, [Top EXCEPT !.op = "object_value"]),
                               Frame("read_int", <<>>, <<>>, 0, "key")))
     ELSE IF Top.next = "counted" /\ Top.n > 0
       THEN StepTo(pos, Append(Append(Rest, [Top EXCEPT !.op = "object_value", !.n = @ - 1]),
                               Frame("read_int", <<>>, <<>>, 0, "key")))
     ELSE IF Top.next = "open" THEN StepReturn(read(data, pos, 1))
     ELSE StepTo(pos, Rest)

\* The value of a key: unpacked by elem_type's format, or self.read_value()
StepObjectValue ==
  /\ Running /\ Top.op = "object_value"
  /\ IF Top.t = <<>> THEN StepCall(Append(Rest, [Top EXCEPT !.op = "object_loop"]))
     ELSE IF ~InMarkers(Top.t) THEN StepRaise(Fail("KeyError", pos, pos))
     ELSE StepTo(pos, Append(Append(Rest, [Top EXCEPT !.op = "object_loop"]),
                             Frame("unpack", Top.t, <<>>, 0, "")))

\* dims = self.read_dims(); return self.read_nd_array(elem_type, dims)
StepReadNdArray ==
  /\ Running /\ Top.op = "read_nd_array"
  /\ StepReturn(read_array_shaped(data, max_data, Top.t, ReadShape(data, max_data, pos)))

\* return self.read_soa(is_row_major), Top.next the layout
StepReadSoa ==
  /\ Running /\ Top.op = "read_soa"
  /\ StepReturn(read_soa(data, max_data, pos, Top.next))

\* The statements outside read_nd_array and read_soa.
StepStatement ==
  \/ StepReadValue \/ StepUnpack \/ StepByte
  \/ StepReadIntMarker \/ StepReadIntPayload \/ StepRead
  \/ StepReadArray \/ StepUntil \/ StepRepeat
  \/ StepReadObject \/ StepObjectLoop \/ StepObjectValue

NextStep == StepStatement \/ StepReadNdArray \/ StepReadSoa

\* The interpreter keeps running the call while it has a statement to run:
\* weak fairness of every step.  For the two block reads it is written out,
\* the step being enabled exactly when its frame is the innermost one.
StepFair ==
  /\ WF_vars(StepStatement)
  /\ ([]<>~(Running /\ Top.op = "read_nd_array") \/ []<><<StepReadNdArray>>_vars)
  /\ ([]<>~(Running /\ Top.op = "read_soa") \/ []<><<StepReadSoa>>_vars)

SpecStep == InitStep /\ [][NextStep]_vars /\ StepFair

(***************************************************************************)
(* Properties of the step-wise decoder (SpecStep)                          *)
(***************************************************************************)
\* C9 (cursor monotonicity): during a read_value call on any buffer the
\* cursor never decreases from one step to the next.
C9_CursorMonotonic == [][pos' >= pos]_vars

\* C10 (termination): a read_value call on a finite buffer eventually ends,
\* by returning (no call left in progress) or by raising an exception.
C10_Termination == <>(stack = <<>> \/ err # "")

(***************************************************************************)
(* Arrays with no-op markers                                               *)
(*                                                                         *)
(* One array body is decoded twice, each time by a reader of its own: as   *)
(* it is, and with 'N' markers inserted where a value may start: before    *)
(* each element and, in an unsized array, before the closing ']'.          *)
(***************************************************************************)
MaxElems == 2   \* elements of an array body
MaxNoops == 2   \* 'N' markers inserted at one place

\* The bodies: each element one of the four kinds of AnyBytes.
NoopBodies == UNION { [1..n -> 1..4] : n \in 0..MaxElems }

\* An array: its elements, its form ('[' ... ']' or '[#<count>' ...) and the
\* number of 'N' put before element k (noops[k]) and before the closing ']'
\* (noops[Len(elems) + 1], none in a counted array, which has no ']').
NoopInputs ==
  { in \in UNION { [elems : {e}, form : {"open", "counted"},
                    noops : [1..Len(e) + 1 -> 0..MaxNoops]] : e \in NoopBodies } :
      in.form = "open" \/ in.noops[Len(in.elems) + 1] = 0 }

NoopRun(n) == [k \in 1..n |-> Ord.N]

\* The buffer of the array in; marked tells whether the 'N' are put in.
NoopBuffer(in, marked) ==
  (IF in.form = "open" THEN <<Ord.lbr>>
   ELSE <<Ord.lbr, Ord.hash, Ord.U, Len(in.elems)>>)
  \o Concat([k \in 1..Len(in.elems) |->
               (IF marked THEN NoopRun(in.noops[k]) ELSE <<>>) \o AnyBytes(in.elems[k])])
  \o (IF in.form = "counted" THEN <<>>
      ELSE (IF marked THEN NoopRun(in.noops[Len(in.elems) + 1]) ELSE <<>>) \o <<Ord.rbr>>)

NoneDecodedNoop == [plain |-> NotRun, noops |-> NotRun]

InitNoop ==
  /\ inp \in NoopInputs
  /\ data = <<>>
  /\ pos = 0
  /\ max_data = MaxBudget
  /\ out = <<>>
  /\ err = ""
  /\ errAt = 0
  /\ text = NoText
  /\ decoded = NoneDecodedNoop
  /\ stack = <<>>

\* read_value() on the array as it is
DecodePlain ==
  /\ decoded.plain = NotRun
  /\ Decoded("plain", NoopBuffer(inp, FALSE), read_value(NoopBuffer(inp, FALSE), max_data, 0))

\* read_value() on the array with the 'N' markers inserted
DecodeNoops ==
  /\ decoded.plain # NotRun
  /\ decoded.noops = NotRun
  /\ Decoded("noops", NoopBuffer(inp, TRUE), read_value(NoopBuffer(inp, TRUE), max_data, 0))

NextNoop == DecodePlain \/ DecodeNoops

SpecNoop == InitNoop /\ [][NextNoop]_vars

(***************************************************************************)
(* Properties of arrays with no-op markers (SpecNoop)                      *)
(***************************************************************************)
\* The elements of the array, decoded.
NoopValues == VList([k \in 1..Len(inp.elems) |-> AnyValue(inp.elems[k])])

\* The array with the 'N' inserted decoded to the array without them, the
\* cursor at the end of the buffer.
NoopsSkipped ==
  /\ decoded.plain.ok /\ decoded.plain.val = NoopValues
  /\ decoded.noops.ok /\ decoded.noops.val = decoded.plain.val
  /\ decoded.noops.pos = Len(NoopBuffer(inp, TRUE))

\* C11 (no-op is skipped and consumes no slot): an array with any number of
\* 'N' markers before its elements, between them and directly before the
\* closing ']' of an unsized array decodes without an error to the same
\* array as without the markers; in a counted array no 'N' counts as an
\* element.
C11_NoopSkipped == decoded.noops # NotRun => NoopsSkipped

\* What the decoder does skip: the 'N' markers that stand before an element,
\* in either form of array.
NoopBeforeElementSkipped ==
  (decoded.noops # NotRun /\ inp.noops[Len(inp.elems) + 1] = 0) => NoopsSkipped

\* With an 'N' directly before the closing ']' the decode raises ValueError
\* at the ']', which the recursive read_value takes for a marker.
NoopBeforeCloseRaises ==
  (decoded.noops # NotRun /\ inp.noops[Len(inp.elems) + 1] > 0) =>
    /\ ~decoded.noops.ok
    /\ decoded.noops.err = "ValueError"
    /\ decoded.noops.at = Len(NoopBuffer(inp, TRUE)) - 1

====
